---------------------------- MODULE Spec2Model ----------------------------
(***************************************************************************)
(* A model of the transport and buffering core of libmemcached as found in *)
(* src/libmemcached/io.cc and src/libmemcached/do.cc: the per-connection   *)
(* read and write buffers, flush, refill, readline, safe_read, writev, the *)
(* poll gate (io_wait), the UDP framer, the readable-server selector and   *)
(* the socket lifecycle.                                                   *)
(*                                                                         *)
(* The library is single-threaded.  One API call runs at a time; it is     *)
(* modelled as a sequence of steps, one per system call or external call   *)
(* it makes, with the code between two such calls folded into the step.    *)
(* pc is the position of the running call, stack its call frames (the      *)
(* local variables of each active C function), ret the value the last      *)
(* returning function handed back.  Everything the kernel or the peer      *)
(* decides (how many bytes a send or recv moves, errno, poll's revents) is *)
(* a nondeterministic choice of the step.                                  *)
(*                                                                         *)
(* The file is built with exactly one of ENABLE_SOCKET_FUNCTIONS and       *)
(* ENABLE_MPI_FUNCTIONS (both or neither does not compile: io_flush and    *)
(* _io_fill declare sent_length/data_read once per macro).  The macros are *)
(* set in libmemcached/common.h, which is not part of the sources at hand; *)
(* the model follows the socket build, the one the specification           *)
(* describes.  Lines 587-603 of _io_fill are outside both macros and are   *)
(* modelled as written.                                                    *)
(***************************************************************************)
EXTENDS Integers, Sequences, FiniteSets, TLC

(***************************************************************************)
(* Bounds of the model.                                                    *)
(***************************************************************************)
\* capacity of the read and of the write buffer (MEMCACHED_MAX_BUFFER,
\* 8196 in the library's headers), scaled down
MEMCACHED_MAX_BUFFER == 3
\* the largest size/length argument of readline, read and safe_read
MaxSize == 3
\* the most bytes the peer sends on one connection
MaxPeerBytes == 5
\* how far strlen may run past a read buffer that holds no NUL byte
StrlenOverrun == 1
\* the most API calls made on the connection in one behaviour
MaxCalls == 2
\* the most bytes the peer sends while the caller writes
MaxReplies == 1
\* the longest payload of one write
MaxWrite == 4
\* the most servers that follow the run of servers owing responses
MaxTail == 2
\* the most datagrams a caller sends
MaxDatagrams == 3
\* the most parts of one writev, and the longest part
MaxParts == 2
MaxPartLen == 2

(***************************************************************************)
(* Program constants.                                                      *)
(***************************************************************************)
NUL == 0
NL == 10
INVALID_SOCKET == -1
\* size_t arithmetic wraps; the width is scaled to 16 bits (TLC's integers
\* are 32 bits wide), far above every length the model reaches
SIZE_MAX == 2^16 - 1
\* the three kinds of byte the code tells apart: the string terminator that
\* strlen looks for, the line terminator, and any other byte
Byte == {NUL, NL, 97}

VARIABLES
    instance,   \* the fields of memcached_instance_st
    root,       \* the fields of instance->root (Memcached)
    sock,       \* the kernel socket and the peer behind instance->fd
    pc,         \* the position of the API call in progress, "idle" if none
    stack,      \* the frames of the active functions, innermost last
    ret,        \* what the last function to return handed back
    call,       \* the API call in progress or last completed: its arguments
                \* and what was observed while it ran
    calls       \* the number of API calls started so far

vars == <<instance, root, sock, pc, stack, ret, call, calls>>

(***************************************************************************)
(* Sequences and arithmetic.                                               *)
(***************************************************************************)
Min(a, b) == IF a < b THEN a ELSE b

Take(s, n) == SubSeq(s, 1, Min(n, Len(s)))

Drop(s, n) == SubSeq(s, Min(n, Len(s)) + 1, Len(s))

IsPrefix(s, t) == Len(s) <= Len(t) /\ SubSeq(t, 1, Len(s)) = s

\* size_t subtraction and addition
SizeSub(a, b) == (a - b + (SIZE_MAX + 1)) % (SIZE_MAX + 1)

SizeAdd(a, b) == (a + b) % (SIZE_MAX + 1)

Zeros(n) == [i \in 1..n |-> NUL]

(***************************************************************************)
(* memcached_return_t classification (libmemcached-1.0/return.h).          *)
(***************************************************************************)
memcached_success(rc) == rc \in {"SUCCESS", "BUFFERED"}

memcached_failed(rc) ==
    rc \notin {"SUCCESS", "END", "DELETED", "STAT", "STORED", "BUFFERED", "VALUE"}

memcached_fatal(rc) ==
    rc \notin {"BUFFERED", "CLIENT_ERROR", "DATA_EXISTS", "DELETED", "E2BIG",
               "END", "ITEM", "NOTFOUND", "NOTSTORED",
               "SERVER_MEMORY_ALLOCATION_FAILURE", "STAT", "STORED",
               "SUCCESS", "VALUE"}

memcached_continue(rc) == rc = "IN_PROGRESS"


(***************************************************************************)
(* The connection and its environment.                                     *)
(***************************************************************************)
\* a connected descriptor
SomeFd == 3

\* memcached_instance_st after construction (instance.cc, _server_init):
\* not connected, empty buffers, counters at zero
NewInstance ==
    [fd |-> INVALID_SOCKET, state |-> "NEW",
     read_buffer |-> Zeros(MEMCACHED_MAX_BUFFER), read_ptr |-> 0,
     read_buffer_length |-> 0, read_data_length |-> 0,
     write_buffer |-> Zeros(MEMCACHED_MAX_BUFFER), write_buffer_offset |-> 0,
     io_bytes_sent |-> 0,
     io_wait_count |-> [read |-> 0, write |-> 0, _bytes_read |-> 0],
     cursor_active_ |-> 0, is_shutting_down |-> FALSE,
     error_messages |-> "NONE", major_version |-> "UINT8_MAX"]

\* the Memcached structure behind instance->root; servers is the list
\* memcached_instance_fetch indexes, of which the selector looks at the
\* descriptor, the unread bytes and the count of responses owed
NewRoot == [poll_timeout |-> 1, callbacks |-> FALSE, udp |-> FALSE,
            replying |-> TRUE, last_error |-> "SUCCESS", servers |-> <<>>]

\* a freshly connected socket: inq holds the bytes the peer sent that recv
\* has not taken yet, sent every byte send() accepted, in order, and asked
\* every byte a caller's write put into the write buffer, in order; of a UDP
\* socket, stamped holds the message id of every datagram header _vdo_udp
\* prepared and datagrams the id of every datagram sendmsg accepted; eof
\* tells that a recv on the socket has returned 0; pressure is "none", or
\* what every send on the socket reports while the kernel takes no bytes
NewSock == [inq |-> <<>>, sent |-> <<>>, asked |-> <<>>, peer_bytes |-> 0,
            echoed |-> 0, shutdown |-> "NONE", stamped |-> <<>>,
            datagrams |-> <<>>, eof |-> FALSE, pressure |-> "none"]

\* memcached_connect(): the collaborator that hands over a connected socket
Connected(inst) == [inst EXCEPT !.fd = SomeFd, !.state = "CONNECTED"]

NoCall == [op |-> "none", size |-> 0, with_flush |-> FALSE, parts |-> <<>>,
           avail |-> <<>>, received |-> <<>>, copied |-> <<>>,
           events |-> <<>>, inst0 |-> NewInstance, sent0 |-> 0,
           send_called |-> FALSE, purge_failed |-> FALSE,
           flush_failed |-> FALSE, failed_part |-> 0, polled |-> FALSE,
           gate |-> "none", exhausted_after |-> 0, refused |-> FALSE,
           send_errno |-> "none",
           vector0 |-> [buffer |-> "NULL", length |-> 0],
           how |-> "none", shutdown_errno |-> "none"]

NoRet == [rc |-> "SUCCESS", ok |-> TRUE, n |-> 0, data |-> <<>>]

(***************************************************************************)
(* Frames.                                                                 *)
(***************************************************************************)
Top == stack[Len(stack)]

SetTop(f) == [stack EXCEPT ![Len(stack)] = f]

Pop == SubSeq(stack, 1, Len(stack) - 1)

\* the running function returns v to its caller
Return(v) ==
    /\ pc' = Top.ret_pc
    /\ stack' = Pop
    /\ ret' = v

Rc(rc) == [NoRet EXCEPT !.rc = rc, !.ok = memcached_success(rc)]

(***************************************************************************)
(* Error recording (error.cc).                                             *)
(***************************************************************************)
\* memcached_set_error(*instance, rc, ...): records rc on the instance when
\* it is fatal, and returns rc
memcached_set_error(inst, rc) ==
    IF memcached_fatal(rc) THEN [inst EXCEPT !.error_messages = rc] ELSE inst

\* memcached_set_errno(*instance, errno, ...): records and returns ERRNO
memcached_set_errno(inst) == [inst EXCEPT !.error_messages = "ERRNO"]

memcached_has_error(inst) == inst.error_messages # "NONE"

memcached_instance_error_return(inst) ==
    IF inst.error_messages = "NONE" THEN "SUCCESS" ELSE inst.error_messages

\* an error recorded on the instance is also the client's last error
RootError(r, inst) ==
    IF inst.error_messages = "NONE" THEN r
    ELSE [r EXCEPT !.last_error = inst.error_messages]

(***************************************************************************)
(* Connection lifecycle: io.cc 941-993.                                    *)
(***************************************************************************)
UDP_DATAGRAM_HEADER_LENGTH == 8

\* memcached_instance_st::start_close_socket
start_close_socket(inst) ==
    IF inst.fd # INVALID_SOCKET
    THEN [inst EXCEPT !.is_shutting_down = TRUE]
    ELSE inst

\* memcached_instance_st::reset_socket
reset_socket(inst) ==
    IF inst.fd # INVALID_SOCKET
    THEN [inst EXCEPT !.fd = INVALID_SOCKET]
    ELSE inst

\* memcached_instance_st::close_socket
close_socket(inst, r) ==
    LET closed == IF inst.fd # INVALID_SOCKET
                  THEN [reset_socket(inst) EXCEPT !.state = "NEW"]
                  ELSE inst
    IN [closed EXCEPT
          !.state = "NEW",
          !.cursor_active_ = 0,
          !.io_bytes_sent = 0,
          !.write_buffer_offset =
              IF r.udp THEN UDP_DATAGRAM_HEADER_LENGTH ELSE 0,
          !.read_buffer_length = 0,
          !.read_ptr = 0,
          !.is_shutting_down = FALSE,
          !.major_version = "UINT8_MAX"]

\* what the socket sees of start_close_socket: shutdown(fd, SHUT_WR)
start_close_shutdown(s, inst) ==
    IF inst.fd # INVALID_SOCKET THEN [s EXCEPT !.shutdown = "WR"] ELSE s

\* both directions whatever came before
shutdown_options_both(inst) == "RDWR"

\* lines 963-967: SHUT_RD, or SHUT_RDWR when the connection is not
\* shutting down
shutdown_options(inst) ==
    IF inst.is_shutting_down = FALSE THEN "RDWR" ELSE "RD"

\* what the socket sees of close_socket: shutdown(fd, SHUT_RD or SHUT_RDWR)
close_socket_shutdown(s, inst) ==
    IF inst.fd # INVALID_SOCKET
    THEN [s EXCEPT !.shutdown = shutdown_options(inst)]
    ELSE s

\* what shutdown() can report to close_socket
ShutdownOutcomes == {"ok", "ENOTCONN", "EIO"}

\* memcached_quit_server(instance, true) (quit.cc): with io_death set it
\* sends nothing and closes the socket
memcached_quit_server(inst, r) == close_socket(inst, r)

(***************************************************************************)
(* The poll gate: io_wait, io.cc 188-314.                                  *)
(***************************************************************************)
\* the most times one connection enters io_wait for either direction
MaxWaits == 1

\* memcached_purge(instance) (purge.cc): drains the responses the server
\* still owes; it reports success or failure
memcached_purge == BOOLEAN

\* size_t loop_max= 5
io_wait_loop_max == 5

\* what poll() and the getsockopt(SO_ERROR) after it can report:
\*   ready    POLLIN or POLLOUT set          hup      POLLHUP alone
\*   err0     POLLERR, SO_ERROR is 0          err      POLLERR, SO_ERROR set
\*   other    none of these bits              timeout  poll returned 0
\*   EINTR, ENOMEM (or EFAULT), EINVAL, EBADF (any other errno): poll failed
PollOutcomes(events, s) ==
    (IF (IF events = "POLLOUT" THEN s.pressure = "none" ELSE s.inq # <<>>)
     THEN {"ready"} ELSE {})
    \cup (IF events = "POLLOUT" \/ s.inq = <<>> THEN {"timeout"} ELSE {})
    \cup {"hup", "err0", "err", "other", "EINTR", "ENOMEM", "EINVAL", "EBADF"}

\* lines 202-227: the purge before a writable wait, the wait counter, and
\* the zero timeout
io_wait_entry ==
    /\ pc = "io_wait"
    /\ \E purged \in (IF Top.events = "POLLOUT" THEN memcached_purge ELSE {TRUE}) :
        IF purged = FALSE
        THEN /\ Return(Rc("FAILURE"))
             /\ call' = [call EXCEPT !.purge_failed = TRUE, !.gate = "purge"]
             /\ UNCHANGED <<instance, root>>
        ELSE LET counted ==
                   IF Top.events = "POLLOUT"
                   THEN [instance EXCEPT !.io_wait_count.write = @ + 1]
                   ELSE [instance EXCEPT !.io_wait_count.read = @ + 1]
                 waiting == [call EXCEPT !.events = Append(@, "wait"),
                                         !.gate = IF root.poll_timeout = 0
                                                  THEN "zero" ELSE "polling"]
             IN IF root.poll_timeout = 0
                THEN /\ instance' = memcached_set_error(counted, "TIMEOUT")
                     /\ root' = RootError(root, memcached_set_error(counted, "TIMEOUT"))
                     /\ call' = waiting
                     /\ Return(Rc("TIMEOUT"))
                ELSE /\ instance' = counted
                     /\ call' = waiting
                     /\ pc' = "io_wait_poll"
                     /\ stack' = SetTop([Top EXCEPT !.loop_max = io_wait_loop_max - 1])
                     /\ UNCHANGED <<root, ret>>
    /\ UNCHANGED <<sock, calls>>

\* the same without the memcached_quit_server of line 305
io_wait_give_up_open(inst, s) ==
    IF memcached_has_error(inst)
    THEN [kind |-> "return", i |-> inst, s |-> s,
          rc |-> memcached_instance_error_return(inst)]
    ELSE [kind |-> "return", s |-> s,
          i |-> memcached_set_error(inst, "CONNECTION_FAILURE"),
          rc |-> "CONNECTION_FAILURE"]

\* lines 305-313: the loop was left without a return
io_wait_give_up(inst, s) ==
    LET quit == memcached_quit_server(inst, root)
        shut == close_socket_shutdown(s, inst)
    IN IF memcached_has_error(quit)
       THEN [kind |-> "return", i |-> quit, s |-> shut,
             rc |-> memcached_instance_error_return(quit)]
       ELSE [kind |-> "return", s |-> shut,
             i |-> memcached_set_error(quit, "CONNECTION_FAILURE"),
             rc |-> "CONNECTION_FAILURE"]

\* `continue`: while (--loop_max) decides between one more poll and giving up
io_wait_continue(inst, s, loop_max) ==
    IF loop_max - 1 # 0
    THEN [kind |-> "again", i |-> inst, s |-> s, rc |-> "SUCCESS"]
    ELSE [io_wait_give_up(inst, s) EXCEPT !.kind = "exhausted"]

\* lines 232-302: what one poll() leads to
io_wait_turn(o, inst, s, loop_max) ==
    CASE o = "ready" ->
           [kind |-> "return", i |-> inst, s |-> s, rc |-> "SUCCESS"]
      [] o = "hup" ->
           [kind |-> "return", s |-> s, rc |-> "CONNECTION_FAILURE",
            i |-> memcached_set_error(inst, "CONNECTION_FAILURE")]
      [] o = "err0" -> io_wait_continue(inst, s, loop_max)
      [] o = "err" ->
           [kind |-> "return", rc |-> "ERRNO",
            s |-> close_socket_shutdown(s, inst),
            i |-> memcached_set_errno(memcached_quit_server(inst, root))]
      [] o = "other" ->
           [kind |-> "return", s |-> s, rc |-> "FAILURE",
            i |-> memcached_set_error(inst, "FAILURE")]
      [] o = "timeout" ->
           [kind |-> "return", s |-> s, rc |-> "TIMEOUT",
            i |-> memcached_set_error(inst, "TIMEOUT")]
      [] o = "EINTR" -> io_wait_continue(inst, s, loop_max)
      [] OTHER ->
           \* EFAULT/ENOMEM and EINVAL record MEMORY_ALLOCATION_FAILURE and
           \* fall through to the default, which records the errno; the
           \* break leaves the loop
           io_wait_give_up(memcached_set_errno(inst), s)

\* how a poll that ends io_wait is remembered: the errnos that leave the
\* loop by `break` are one class
PollClass(o) ==
    IF o \in {"ready", "hup", "err", "other", "timeout"} THEN o ELSE "errno"

\* lines 230-303: one turn of the poll loop; the frame counts the polls that
\* were retried, and the call remembers how the gate ended and, when it ran
\* out of retries, after how many polls
io_wait_poll ==
    /\ pc = "io_wait_poll"
    /\ \E o \in PollOutcomes(Top.events, sock) :
        LET t == io_wait_turn(o, instance, sock, Top.loop_max)
        IN /\ instance' = t.i
           /\ sock' = t.s
           /\ root' = IF t.kind # "again" /\ t.rc # "SUCCESS"
                      THEN RootError(root, t.i) ELSE root
           /\ IF t.kind = "again"
              THEN /\ stack' = SetTop([Top EXCEPT !.loop_max = @ - 1,
                                                  !.polls = @ + 1])
                   /\ UNCHANGED <<pc, ret, call>>
              ELSE /\ Return(Rc(t.rc))
                   /\ call' = [call EXCEPT
                         !.gate = IF t.kind = "exhausted" THEN "exhausted"
                                  ELSE PollClass(o),
                         !.exhausted_after =
                             IF t.kind = "exhausted" THEN Top.polls + 1 ELSE @]
    /\ UNCHANGED calls

(***************************************************************************)
(* Refill: _io_fill, io.cc 474-610.                                        *)
(***************************************************************************)
\* what recv() on the connection can report: a count of bytes taken from the
\* head of the queue, 0 (the peer closed), or an errno
RecvOutcomes(s, capacity, inst) ==
    {<<"data", n>> : n \in 1..Min(capacity, Len(s.inq))}
    \cup (IF s.inq = <<>> THEN {<<"closed", 0>>} ELSE {})
    \cup (IF s.inq = <<>> /\ inst.io_wait_count.read < MaxWaits
          THEN {<<"EAGAIN", -1>>} ELSE {})
    \cup {<<"EINTR", -1>>, <<"ECONNRESET", -1>>}

\* recv(fd, buf + at, n): the first n queued bytes are stored from offset at
StoreAt(buf, at, bytes) ==
    [i \in 1..Len(buf) |->
        IF i > at /\ i <= at + Len(bytes) THEN bytes[i - at] ELSE buf[i]]

\* the same branch without the close
io_fill_eof_open(inst, r) == memcached_set_error(inst, "CONNECTION_FAILURE")

\* lines 564-581: recv returned 0, the server has disconnected
io_fill_eof(inst, r) ==
    memcached_set_error(memcached_quit_server(inst, r), "CONNECTION_FAILURE")

\* lines 497-586: the receive loop
io_fill_recv ==
    /\ pc = "_io_fill"
    /\ \E o \in RecvOutcomes(sock, MEMCACHED_MAX_BUFFER, instance) :
        CASE o[1] = "data" ->
               /\ instance' = [instance EXCEPT
                     !.read_buffer = StoreAt(@, 0, Take(sock.inq, o[2])),
                     !.io_wait_count._bytes_read = @ + o[2]]
               /\ sock' = [sock EXCEPT !.inq = Drop(@, o[2])]
               /\ call' = [call EXCEPT !.received = @ \o Take(sock.inq, o[2])]
               /\ stack' = SetTop([Top EXCEPT !.data_read = o[2]])
               /\ pc' = "_io_fill_tail"
               /\ UNCHANGED <<root, ret>>
          [] o[1] = "closed" ->
               /\ instance' = io_fill_eof(instance, root)
               /\ root' = [root EXCEPT !.last_error = "CONNECTION_FAILURE"]
               /\ sock' = [close_socket_shutdown(sock, instance)
                              EXCEPT !.eof = TRUE]
               /\ Return(Rc("CONNECTION_FAILURE"))
               /\ UNCHANGED call
          [] o[1] = "EINTR" ->
               UNCHANGED <<instance, root, sock, pc, stack, ret, call>>
          [] o[1] = "EAGAIN" ->
               /\ stack' = Append(stack, [fn |-> "io_wait", ret_pc |-> "_io_fill_wait_ret",
                                          events |-> "POLLIN", loop_max |-> 0, polls |-> 0])
               /\ pc' = "io_wait"
               /\ UNCHANGED <<instance, root, sock, ret, call>>
          [] OTHER ->
               /\ instance' = memcached_set_errno(memcached_quit_server(instance, root))
               /\ root' = [root EXCEPT !.last_error = "ERRNO"]
               /\ sock' = close_socket_shutdown(sock, instance)
               /\ Return(Rc("ERRNO"))
               /\ UNCHANGED call
    /\ UNCHANGED calls

\* lines 536-542: back from the readable wait
io_fill_wait_ret ==
    /\ pc = "_io_fill_wait_ret"
    /\ IF memcached_success(ret.rc)
       THEN /\ pc' = "_io_fill"
            /\ UNCHANGED <<stack, ret>>
       ELSE Return(Rc(ret.rc))
    /\ UNCHANGED <<instance, root, sock, call, calls>>

\* strlen(instance->read_buffer): the offset of the first NUL byte; a buffer
\* without one makes strlen run into the memory behind it
strlen(buf) ==
    IF \E i \in 1..Len(buf) : buf[i] = NUL
    THEN {(CHOOSE i \in 1..Len(buf) :
              buf[i] = NUL /\ \A j \in 1..(i - 1) : buf[j] # NUL) - 1}
    ELSE Len(buf)..(Len(buf) + StrlenOverrun)

\* lines 587-609: after the loop the length of the data is taken from
\* strlen of the buffer, and the bytes-sent counter is cleared
io_fill_tail ==
    /\ pc = "_io_fill_tail"
    /\ \E data_read \in strlen(instance.read_buffer) :
        instance' = [instance EXCEPT
                        !.io_bytes_sent = 0,
                        !.read_data_length = data_read,
                        !.read_buffer_length = data_read,
                        !.read_ptr = 0]
    /\ Return(Rc("SUCCESS"))
    /\ UNCHANGED <<root, sock, call, calls>>

(***************************************************************************)
(* Buffered read: memcached_io_read, io.cc 612-709.                        *)
(***************************************************************************)
\* the bytes at read_ptr .. read_ptr + k - 1; those past the end of the
\* read buffer are whatever the memory behind it holds (oob)
ReadMem(buf, ptr, k, oob) ==
    [i \in 1..k |-> IF ptr + i <= Len(buf) THEN buf[ptr + i] ELSE oob[i]]

\* the contents the memory behind the buffer may have, for a read of k bytes
OobChoices(ptr, k) ==
    IF ptr + k <= MEMCACHED_MAX_BUFFER THEN {Zeros(k)} ELSE [1..k -> Byte]

\* the same check never taken
io_read_not_connected_never(inst) == FALSE

\* line 625: if (instance->fd == INVALID_SOCKET)
io_read_not_connected(inst) == inst.fd = INVALID_SOCKET

\* lines 625-634: reading while not connected
memcached_io_read_entry ==
    /\ pc = "io_read"
    /\ IF io_read_not_connected(instance)
       THEN /\ Return(Rc("CONNECTION_FAILURE"))
            /\ call' = [call EXCEPT !.refused = TRUE]
       ELSE /\ pc' = "io_read_loop"
            /\ UNCHANGED <<stack, ret, call>>
    /\ UNCHANGED <<instance, root, sock, calls>>

\* lines 639-658 and 704-708: the head of the loop
memcached_io_read_loop ==
    /\ pc = "io_read_loop"
    /\ IF Top.length = 0
       THEN Return([NoRet EXCEPT !.n = Len(Top.data), !.data = Top.data])
       ELSE IF instance.read_buffer_length = 0
            THEN /\ stack' = Append(stack, [fn |-> "_io_fill",
                                            ret_pc |-> "io_read_fill_ret",
                                            data_read |-> 0])
                 /\ pc' = "_io_fill"
                 /\ UNCHANGED ret
            ELSE /\ pc' = "io_read_copy"
                 /\ UNCHANGED <<stack, ret>>
    /\ UNCHANGED <<instance, root, sock, call, calls>>

\* lines 650-657: back from the refill
memcached_io_read_fill_ret ==
    /\ pc = "io_read_fill_ret"
    /\ IF memcached_fatal(ret.rc)
       THEN Return([NoRet EXCEPT !.rc = ret.rc, !.ok = FALSE, !.n = -1])
       ELSE /\ pc' = "io_read_copy"
            /\ UNCHANGED <<stack, ret>>
    /\ UNCHANGED <<instance, root, sock, call, calls>>

\* lines 662-701: copy out of the read buffer
memcached_io_read_copy ==
    /\ pc = "io_read_copy"
    /\ IF Top.length > 1
       THEN LET difference == IF Top.length > instance.read_buffer_length
                              THEN instance.read_buffer_length ELSE Top.length
            IN \E oob \in OobChoices(instance.read_ptr, difference) :
                /\ instance' = [instance EXCEPT
                      !.read_ptr = @ + difference,
                      !.read_buffer_length = SizeSub(@, difference)]
                /\ stack' = SetTop([Top EXCEPT
                      !.length = @ - difference,
                      !.data = @ \o ReadMem(instance.read_buffer,
                                            instance.read_ptr, difference, oob)])
                /\ pc' = "io_read_loop"
                /\ UNCHANGED ret
       ELSE \E oob \in OobChoices(instance.read_ptr, 1) :
                LET data == Top.data \o ReadMem(instance.read_buffer,
                                                instance.read_ptr, 1, oob)
                IN /\ instance' = [instance EXCEPT
                         !.read_ptr = @ + 1,
                         !.read_buffer_length = SizeSub(@, 1)]
                   /\ Return([NoRet EXCEPT !.n = Len(data), !.data = data])
    /\ UNCHANGED <<root, sock, call, calls>>

(***************************************************************************)
(* memcached_safe_read, io.cc 1080-1103.                                   *)
(***************************************************************************)
\* lines 1087-1092 and 1102
memcached_safe_read_loop ==
    /\ pc = "safe_read"
    /\ IF Top.offset < Top.size
       THEN /\ stack' = Append(stack, [fn |-> "io_read", ret_pc |-> "safe_read_ret",
                                       length |-> Top.size - Top.offset,
                                       data |-> <<>>])
            /\ pc' = "io_read"
            /\ UNCHANGED ret
       ELSE Return([NoRet EXCEPT !.n = Top.offset, !.data = Top.dta])
    /\ UNCHANGED <<instance, root, sock, call, calls>>

\* lines 1092-1099
memcached_safe_read_ret ==
    /\ pc = "safe_read_ret"
    /\ IF memcached_continue(ret.rc)
       THEN /\ stack' = Append(stack, [fn |-> "io_read", ret_pc |-> "safe_read_ret",
                                       length |-> Top.size - Top.offset,
                                       data |-> <<>>])
            /\ pc' = "io_read"
            /\ UNCHANGED ret
       ELSE IF memcached_failed(ret.rc)
            THEN Return([NoRet EXCEPT !.rc = ret.rc, !.ok = FALSE,
                                      !.n = Top.offset, !.data = Top.dta])
            ELSE /\ stack' = SetTop([Top EXCEPT !.offset = @ + ret.n,
                                                !.dta = @ \o ret.data])
                 /\ pc' = "safe_read"
                 /\ UNCHANGED ret
    /\ UNCHANGED <<instance, root, sock, call, calls>>

(***************************************************************************)
(* memcached_io_readline, io.cc 1105-1195.                                 *)
(***************************************************************************)
\* lines 1117-1130: the head of the loop
memcached_io_readline_loop ==
    /\ pc = "readline"
    /\ IF instance.read_buffer_length = 0
       THEN /\ stack' = Append(stack, [fn |-> "io_read", ret_pc |-> "readline_ret",
                                       length |-> 1, data |-> <<>>])
            /\ pc' = "io_read"
       ELSE /\ pc' = "readline_copy"
            /\ UNCHANGED stack
    /\ UNCHANGED <<instance, root, sock, ret, call, calls>>

\* lines 1134-1157: back from the one-byte read
memcached_io_readline_ret ==
    /\ pc = "readline_ret"
    /\ IF memcached_failed(ret.rc) /\ ret.rc = "IN_PROGRESS"
       THEN /\ instance' = memcached_set_error(
                              memcached_quit_server(instance, root), ret.rc)
            /\ sock' = close_socket_shutdown(sock, instance)
            /\ Return([NoRet EXCEPT !.rc = ret.rc, !.ok = FALSE,
                                    !.n = Top.total_nr, !.data = Top.buffer])
       ELSE IF memcached_failed(ret.rc)
            THEN /\ Return([NoRet EXCEPT !.rc = ret.rc, !.ok = FALSE,
                                         !.n = Top.total_nr, !.data = Top.buffer])
                 /\ UNCHANGED <<instance, sock>>
            ELSE /\ stack' = SetTop([Top EXCEPT
                       !.line_complete = (ret.data[1] = NL),
                       !.buffer = @ \o ret.data,
                       !.total_nr = @ + 1])
                 /\ pc' = "readline_copy"
                 /\ UNCHANGED <<instance, sock, ret>>
    /\ UNCHANGED <<root, call, calls>>

\* the memory readline's copy loop walks through: the read buffer, and
\* behind it what oob supplies for the offsets from read_ptr on
Memory(buf, ptr, oob) ==
    [i \in 1..(ptr + Len(oob)) |->
        IF i <= Len(buf) THEN buf[i]
        ELSE IF i > ptr THEN oob[i - ptr] ELSE NUL]

\* lines 1162-1182: copy from the read buffer up to the terminator, the end
\* of the unread data or the end of the destination
RECURSIVE readline_copy(_, _, _, _, _, _, _)
readline_copy(mem, read_ptr, read_buffer_length, total_nr, size, buffer, line_complete) ==
    IF read_buffer_length # 0 /\ total_nr < size /\ line_complete = FALSE
    THEN readline_copy(mem, read_ptr + 1, SizeSub(read_buffer_length, 1),
                       total_nr + 1, size, Append(buffer, mem[read_ptr + 1]),
                       mem[read_ptr + 1] = NL)
    ELSE [read_ptr |-> read_ptr, read_buffer_length |-> read_buffer_length,
          total_nr |-> total_nr, buffer |-> buffer,
          line_complete |-> line_complete]

\* a readline that goes on with a destination that is used up
readline_overflow_never(total_nr, size) == FALSE

\* line 1186: the destination is used up
readline_overflow(total_nr, size) == total_nr = size

\* lines 1162-1194: the copy loop, the overflow check and the loop condition
memcached_io_readline_copy ==
    /\ pc = "readline_copy"
    /\ \E oob \in OobChoices(instance.read_ptr,
                             Min(instance.read_buffer_length,
                                 Top.size - Top.total_nr)) :
        LET c == readline_copy(Memory(instance.read_buffer, instance.read_ptr, oob),
                               instance.read_ptr,
                               instance.read_buffer_length, Top.total_nr,
                               Top.size, Top.buffer, Top.line_complete)
        IN /\ instance' = [instance EXCEPT
                 !.read_ptr = c.read_ptr,
                 !.read_buffer_length = c.read_buffer_length]
           /\ IF readline_overflow(c.total_nr, Top.size)
              THEN Return([NoRet EXCEPT !.rc = "PROTOCOL_ERROR", !.ok = FALSE,
                                        !.n = c.total_nr, !.data = c.buffer])
              ELSE IF c.line_complete
                   THEN Return([NoRet EXCEPT !.n = c.total_nr, !.data = c.buffer])
                   ELSE /\ stack' = SetTop([Top EXCEPT
                              !.total_nr = c.total_nr,
                              !.buffer = c.buffer,
                              !.line_complete = c.line_complete])
                        /\ pc' = "readline"
                        /\ UNCHANGED ret
    /\ UNCHANGED <<root, sock, call, calls>>

(***************************************************************************)
(* Input draining during a flush: io.cc 73-186.                            *)
(***************************************************************************)
\* the unsigned arithmetic of io_bytes_sent, at the width of SIZE_MAX
U32Add(a, b) == (a + b) % (SIZE_MAX + 1)

\* lines 75-83: memmove of the unread bytes to the start of the read buffer
repack_move(inst) ==
    IF inst.read_ptr # 0
    THEN [inst EXCEPT
            !.read_buffer = StoreAt(@, 0, SubSeq(inst.read_buffer, inst.read_ptr + 1,
                                       inst.read_ptr + inst.read_buffer_length)),
            !.read_ptr = 0,
            !.read_data_length = inst.read_buffer_length]
    ELSE inst

\* lines 73-134: repack_input_buffer; the result says whether bytes were read
repack_input_buffer(inst, s, o) ==
    LET m == repack_move(inst)
    IN IF m.read_buffer_length = MEMCACHED_MAX_BUFFER
       THEN [i |-> m, s |-> s, got |-> <<>>, result |-> FALSE]
       ELSE CASE o[1] = "data" ->
                   [i |-> [m EXCEPT
                             !.read_buffer = StoreAt(@, m.read_data_length,
                                                     Take(s.inq, o[2])),
                             !.read_data_length = @ + o[2],
                             !.read_buffer_length = @ + o[2]],
                    s |-> [s EXCEPT !.inq = Drop(@, o[2])],
                    got |-> Take(s.inq, o[2]), result |-> TRUE]
              [] o[1] = "closed" ->
                   [i |-> memcached_set_error(m, "CONNECTION_FAILURE"),
                    s |-> s, got |-> <<>>, result |-> FALSE]
              [] o[1] \in {"EINTR", "EAGAIN"} ->
                   [i |-> m, s |-> s, got |-> <<>>, result |-> FALSE]
              [] OTHER ->
                   [i |-> memcached_set_errno(m), s |-> s, got |-> <<>>,
                    result |-> FALSE]

\* memcached_response(instance, buffer, ...) (response.cc) as called from
\* process_input_buffer: it takes k of the unread bytes out of the read buffer
memcached_response(inst, k) ==
    [inst EXCEPT !.read_ptr = @ + k, !.read_buffer_length = @ - k]

\* lines 146-186: process_input_buffer is true exactly when callbacks are set
process_input_buffer(r) == r.callbacks

(***************************************************************************)
(* io_flush, io.cc 324-452.                                                *)
(***************************************************************************)
\* what send() can report: a count of bytes accepted, or an errno
SendOutcomes(write_length, inst) ==
    {<<"sent", n>> : n \in 1..write_length}
    \cup (IF inst.io_wait_count.write < MaxWaits THEN {<<"EAGAIN", -1>>} ELSE {})
    \cup {<<"ENOBUFS", -1>>, <<"EINTR", -1>>, <<"EPIPE", -1>>}

\* the ways a kernel that takes no bytes can answer a send: ENOBUFS,
\* EAGAIN, or a count of 0
PressureKinds == {"ENOBUFS", "EAGAIN", "zero"}

\* what send() reports on a socket under back-pressure
PressureOutcomes(s) ==
    IF s.pressure = "zero" THEN {<<"sent", 0>>} ELSE {<<s.pressure, -1>>}

\* io_flush returns false
FlushFails == [NoRet EXCEPT !.ok = FALSE]

\* lines 331-350: the purge, then the locals
io_flush_entry ==
    /\ pc = "io_flush"
    /\ \E purged \in memcached_purge :
        IF purged = FALSE
        THEN /\ Return(FlushFails)
             /\ call' = [call EXCEPT !.purge_failed = TRUE, !.flush_failed = TRUE]
        ELSE /\ stack' = SetTop([Top EXCEPT
                   !.local_write_ptr = 0,
                   !.write_length = instance.write_buffer_offset])
             /\ pc' = "io_flush_loop"
             /\ UNCHANGED <<ret, call>>
    /\ UNCHANGED <<instance, root, sock, calls>>

\* a flush that calls send even with nothing left
flush_done_never(write_length) == FALSE

\* line 352: while (write_length) has nothing left to send
flush_done(write_length) == write_length = 0

\* a flush that waits for writability right after EAGAIN
io_flush_eagain_wait == "io_flush_wait"

\* after EAGAIN the flush first turns to the input (line 407)
io_flush_eagain_next == "io_flush_repack"

\* lines 352-451: one send, or the end of the loop
io_flush_send ==
    /\ pc = "io_flush_loop"
    /\ IF flush_done(Top.write_length)
       THEN /\ instance' = [instance EXCEPT !.write_buffer_offset = 0]
            /\ Return([NoRet EXCEPT !.ok = TRUE])
            /\ UNCHANGED <<root, sock, call>>
       ELSE \E o \in IF sock.pressure = "none"
                     THEN SendOutcomes(Top.write_length, instance)
                     ELSE PressureOutcomes(sock) :
            CASE o[1] = "sent" ->
                   /\ sock' = [sock EXCEPT !.sent = @ \o
                         SubSeq(instance.write_buffer, Top.local_write_ptr + 1,
                                Top.local_write_ptr + o[2])]
                   /\ instance' = [instance EXCEPT
                         !.io_bytes_sent = U32Add(@, o[2])]
                   /\ stack' = SetTop([Top EXCEPT
                         !.local_write_ptr = @ + o[2],
                         !.write_length = @ - o[2]])
                   /\ call' = [call EXCEPT !.send_called = TRUE, !.events = <<>>]
                   /\ UNCHANGED <<root, pc, ret>>
              [] o[1] = "ENOBUFS" ->
                   /\ call' = [call EXCEPT !.send_called = TRUE, !.events = <<>>]
                   /\ UNCHANGED <<instance, root, sock, pc, stack, ret>>
              [] o[1] = "EAGAIN" ->
                   /\ call' = [call EXCEPT !.send_called = TRUE, !.events = <<>>]
                   /\ pc' = io_flush_eagain_next
                   /\ UNCHANGED <<instance, root, sock, stack, ret>>
              [] OTHER ->
                   /\ instance' = memcached_set_errno(
                                     memcached_quit_server(instance, root))
                   /\ root' = [root EXCEPT !.last_error = "ERRNO"]
                   /\ sock' = close_socket_shutdown(sock, instance)
                   /\ call' = [call EXCEPT !.send_called = TRUE, !.events = <<>>,
                                           !.flush_failed = TRUE,
                                           !.send_errno = o[1]]
                   /\ Return([FlushFails EXCEPT !.rc = "ERRNO"])
    /\ UNCHANGED calls

\* what the single recv of repack_input_buffer can report; a receive of no
\* bytes reports 0
RepackOutcomes(inst, s) ==
    LET room == MEMCACHED_MAX_BUFFER - repack_move(inst).read_data_length
    IN IF room <= 0 THEN {<<"closed", 0>>} ELSE RecvOutcomes(s, room, inst)

\* line 407, left operand: repack_input_buffer(instance); a memmove of more
\* bytes than the buffer holds ends the program
io_flush_repack ==
    /\ pc = "io_flush_repack"
    /\ IF instance.read_ptr + instance.read_buffer_length > MEMCACHED_MAX_BUFFER
       THEN /\ pc' = "crashed"
            /\ UNCHANGED <<instance, root, sock, call>>
       ELSE \E o \in RepackOutcomes(instance, sock) :
            LET r == repack_input_buffer(instance, sock, o)
            IN /\ instance' = r.i
               /\ sock' = r.s
               /\ root' = RootError(root, r.i)
               /\ call' = [call EXCEPT !.events = Append(@, "repack"),
                                       !.received = @ \o r.got]
               /\ pc' = IF r.result THEN "io_flush_loop" ELSE "io_flush_process"
    /\ UNCHANGED <<stack, ret, calls>>

\* line 407, right operand: process_input_buffer(instance)
io_flush_process ==
    /\ pc = "io_flush_process"
    /\ call' = [call EXCEPT !.events = Append(@, "process")]
    /\ IF process_input_buffer(root)
       THEN /\ \E k \in 0..instance.read_buffer_length :
                instance' = memcached_response(instance, k)
            /\ pc' = "io_flush_loop"
       ELSE /\ pc' = "io_flush_wait"
            /\ UNCHANGED instance
    /\ UNCHANGED <<root, sock, stack, ret, calls>>

\* line 410: io_wait(instance, POLLOUT)
io_flush_wait ==
    /\ pc = "io_flush_wait"
    /\ stack' = Append(stack, [fn |-> "io_wait", ret_pc |-> "io_flush_wait_ret",
                               events |-> "POLLOUT", loop_max |-> 0, polls |-> 0])
    /\ pc' = "io_wait"
    /\ UNCHANGED <<instance, root, sock, ret, call, calls>>

\* the same test never taken
flush_wait_timed_out_never(rc) == FALSE

\* line 413: else if (rc == MEMCACHED_TIMEOUT)
flush_wait_timed_out(rc) == rc = "TIMEOUT"

\* lines 411-419: back from the writable wait
io_flush_wait_ret ==
    /\ pc = "io_flush_wait_ret"
    /\ IF memcached_success(ret.rc)
       THEN /\ pc' = "io_flush_loop"
            /\ UNCHANGED <<instance, root, sock, stack, ret, call>>
       ELSE IF flush_wait_timed_out(ret.rc)
            THEN /\ Return(FlushFails)
                 /\ call' = [call EXCEPT !.flush_failed = TRUE]
                 /\ UNCHANGED <<instance, root, sock>>
            ELSE /\ instance' = memcached_set_errno(
                                   memcached_quit_server(instance, root))
                 /\ root' = [root EXCEPT !.last_error = "ERRNO"]
                 /\ sock' = close_socket_shutdown(sock, instance)
                 /\ call' = [call EXCEPT !.flush_failed = TRUE]
                 /\ Return([FlushFails EXCEPT !.rc = "ERRNO"])
    /\ UNCHANGED calls

(***************************************************************************)
(* Buffered writes: io.cc 768-939.                                         *)
(***************************************************************************)
\* a call of io_flush(instance, with_flush, rc)
FlushFrame(with_flush, ret_pc) ==
    [fn |-> "io_flush", ret_pc |-> ret_pc, with_flush |-> with_flush,
     local_write_ptr |-> 0, write_length |-> 0]

\* a call of _io_write(instance, buffer, length, with_flush, written)
WriteFrame(buffer, with_flush, ret_pc) ==
    [fn |-> "_io_write", ret_pc |-> ret_pc, buffer |-> buffer,
     original_length |-> Len(buffer), with_flush |-> with_flush]

\* lines 786-848: one turn of the copy loop, or what follows the loop
io_write_loop ==
    /\ pc = "_io_write"
    /\ IF Top.buffer # <<>>
       THEN LET room == MEMCACHED_MAX_BUFFER - instance.write_buffer_offset
                should_write == Min(room, Len(Top.buffer))
                bytes == Take(Top.buffer, should_write)
                rest == [Top EXCEPT !.buffer = Drop(@, should_write)]
            IN /\ instance' = [instance EXCEPT
                     !.write_buffer = StoreAt(@, instance.write_buffer_offset, bytes),
                     !.write_buffer_offset = @ + should_write]
               /\ sock' = [sock EXCEPT !.asked = @ \o bytes]
               /\ call' = [call EXCEPT !.copied = @ \o bytes]
               /\ IF instance.write_buffer_offset + should_write = MEMCACHED_MAX_BUFFER
                  THEN /\ stack' = Append(SetTop(rest),
                                          FlushFrame(Top.with_flush, "_io_write_full_ret"))
                       /\ pc' = "io_flush"
                  ELSE /\ stack' = SetTop(rest)
                       /\ UNCHANGED pc
               /\ UNCHANGED ret
       ELSE /\ IF Top.with_flush
               THEN /\ stack' = Append(stack, FlushFrame(TRUE, "_io_write_last_ret"))
                    /\ pc' = "io_flush"
                    /\ UNCHANGED ret
               ELSE Return([NoRet EXCEPT !.ok = TRUE, !.n = Top.original_length])
            /\ UNCHANGED <<instance, sock, call>>
    /\ UNCHANGED <<root, calls>>

\* lines 817-824 and 836-848: back from io_flush
io_write_flush_ret ==
    /\ pc \in {"_io_write_full_ret", "_io_write_last_ret"}
    /\ IF ret.ok = FALSE
       THEN Return([ret EXCEPT !.n = Top.original_length - Len(Top.buffer)])
       ELSE IF pc = "_io_write_full_ret"
            THEN /\ pc' = "_io_write"
                 /\ UNCHANGED <<stack, ret>>
            ELSE Return([NoRet EXCEPT !.ok = TRUE, !.n = Top.original_length])
    /\ UNCHANGED <<instance, root, sock, call, calls>>

\* lines 861-879: memcached_io_write(instance, buffer, length, with_flush)
\* turns the result into the count written, or -1
memcached_io_write_ret ==
    /\ pc = "memcached_io_write_ret"
    /\ Return([ret EXCEPT !.n = IF ret.ok THEN ret.n ELSE -1])
    /\ UNCHANGED <<instance, root, sock, call, calls>>

\* a writev that goes on after a failed part
writev_part_failed_never(ok) == FALSE

\* line 905: the buffered write of a part failed
writev_part_failed(ok) == ok = FALSE

\* lines 893-938: the loop over the parts, and what follows it
memcached_io_writev_loop ==
    /\ pc = "memcached_io_writev"
    /\ IF Top.x <= Len(Top.vector)
       THEN LET part == Top.vector[Top.x]
                counted == [Top EXCEPT !.complete_total = @ + Len(part)]
            IN IF part # <<>>
               THEN /\ stack' = Append(SetTop(counted),
                                       WriteFrame(part, FALSE, "writev_part_ret"))
                    /\ pc' = "_io_write"
                    /\ UNCHANGED ret
               ELSE /\ stack' = SetTop([counted EXCEPT !.x = @ + 1])
                    /\ UNCHANGED <<pc, ret>>
       ELSE IF Top.with_flush
            THEN /\ stack' = Append(stack, WriteFrame(<<>>, TRUE, "writev_flush_ret"))
                 /\ pc' = "_io_write"
                 /\ UNCHANGED ret
            ELSE Return([NoRet EXCEPT !.ok = (Top.complete_total = Top.total)])
    /\ UNCHANGED <<instance, root, sock, call, calls>>

\* lines 905-914: back from the buffered write of a part
memcached_io_writev_part_ret ==
    /\ pc = "writev_part_ret"
    /\ IF writev_part_failed(ret.ok)
       THEN /\ Return([NoRet EXCEPT !.ok = FALSE])
            /\ call' = [call EXCEPT !.failed_part = Top.x]
       ELSE /\ stack' = SetTop([Top EXCEPT !.total = @ + ret.n, !.x = @ + 1])
            /\ pc' = "memcached_io_writev"
            /\ UNCHANGED <<ret, call>>
    /\ UNCHANGED <<instance, root, sock, calls>>

\* lines 925-938: back from the trailing flush
memcached_io_writev_flush_ret ==
    /\ pc = "writev_flush_ret"
    /\ IF ret.ok = FALSE
       THEN Return([NoRet EXCEPT !.ok = FALSE])
       ELSE Return([NoRet EXCEPT !.ok = (Top.complete_total = Top.total)])
    /\ UNCHANGED <<instance, root, sock, call, calls>>

(***************************************************************************)
(* UDP datagrams: do.cc 14-65.                                             *)
(***************************************************************************)
\* the request id of the datagram header is a uint16_t
UDP_ID_MODULUS == 2^16

\* htons(id): the two bytes of the id, the high one first
htons(id) == <<id \div 256, id % 256>>

\* ntohs of the first two bytes of the write buffer: the header's request id
get_udp_datagram_request_id(inst) ==
    inst.write_buffer[1] * 256 + inst.write_buffer[2]

\* increment_udp_message_id(instance) (udp.cc): the request id of the header
\* in the write buffer becomes the next id
increment_udp_message_id(inst) ==
    [inst EXCEPT !.write_buffer = StoreAt(@, 0,
        htons((get_udp_datagram_request_id(inst) + 1) % UDP_ID_MODULUS))]

\* a header that keeps the id of the datagram before
vdo_udp_header_stale(inst) == inst

\* lines 28-30: the header of the datagram is prepared once, before the
\* retry loop
vdo_udp_header(inst) == increment_udp_message_id(inst)

\* uint32_t retry= 5
vdo_udp_retry == 5

\* the same check never taken
vdo_udp_slot_used_never(v) == FALSE

\* line 19: if (vector[0].buffer or vector[0].length)
vdo_udp_slot_used(v) == v.buffer # "NULL" \/ v.length # 0

\* lines 19-40: the check of the header slot, the header, and the first
\* evaluation of while (--retry); call.vector0 is vector[0], the caller's
\* first part
vdo_udp_entry ==
    /\ pc = "_vdo_udp"
    /\ IF vdo_udp_slot_used(call.vector0)
       THEN /\ root' = [root EXCEPT !.last_error = "NOT_SUPPORTED"]
            /\ Return(Rc("NOT_SUPPORTED"))
            /\ UNCHANGED <<instance, sock, call>>
       ELSE /\ instance' = vdo_udp_header(instance)
            /\ call' = [call EXCEPT !.vector0 =
                  [buffer |-> "write_buffer",
                   length |-> UDP_DATAGRAM_HEADER_LENGTH]]
            /\ sock' = [sock EXCEPT !.stamped =
                  Append(@, get_udp_datagram_request_id(vdo_udp_header(instance)))]
            /\ stack' = SetTop([Top EXCEPT !.retry = vdo_udp_retry - 1,
                                           !.attempts = 0])
            /\ pc' = "_vdo_udp_loop"
            /\ UNCHANGED <<root, ret>>
    /\ UNCHANGED calls

\* what sendmsg() can report
SendmsgOutcomes == {"sent", "zero", "EMSGSIZE", "EPERM"}

\* a failed sendmsg taken for a success
vdo_udp_send_error_ignored(o) == "SUCCESS"

\* lines 47-55: the result of a sendmsg that returned a negative value
vdo_udp_send_error(o) == IF o = "EMSGSIZE" THEN "WRITE_FAILURE" ELSE "ERRNO"

\* lines 40-58: one sendmsg of the retry loop
vdo_udp_sendmsg ==
    /\ pc = "_vdo_udp_loop"
    /\ \E o \in SendmsgOutcomes :
        CASE o = "sent" ->
               /\ sock' = [sock EXCEPT !.datagrams =
                     Append(@, get_udp_datagram_request_id(instance))]
               /\ Return(Rc("SUCCESS"))
               /\ UNCHANGED <<instance, root, call>>
          [] o = "zero" ->
               /\ IF Top.retry - 1 # 0
                  THEN /\ stack' = SetTop([Top EXCEPT !.retry = @ - 1,
                                                      !.attempts = @ + 1])
                       /\ UNCHANGED <<pc, ret, call>>
                  ELSE /\ Return(Rc("SUCCESS"))
                       /\ call' = [call EXCEPT
                                     !.exhausted_after = Top.attempts + 1]
               /\ UNCHANGED <<instance, root, sock>>
          [] o = "EMSGSIZE" ->
               /\ instance' = memcached_set_error(instance, "WRITE_FAILURE")
               /\ root' = [root EXCEPT !.last_error = "WRITE_FAILURE"]
               /\ Return(Rc(vdo_udp_send_error(o)))
               /\ call' = [call EXCEPT !.send_errno = o]
               /\ UNCHANGED sock
          [] OTHER ->
               /\ instance' = memcached_set_errno(instance)
               /\ root' = [root EXCEPT !.last_error = "ERRNO"]
               /\ Return(Rc(vdo_udp_send_error(o)))
               /\ call' = [call EXCEPT !.send_errno = o]
               /\ UNCHANGED sock
    /\ UNCHANGED calls

(***************************************************************************)
(* The selector: memcached_io_get_readable_server, io.cc 995-1066.         *)
(***************************************************************************)
\* #define MAX_SERVERS_TO_POLL 100
MAX_SERVERS_TO_POLL == 100

\* instance->response_count(): the responses the server still owes
response_count(server) == server.cursor_active_

\* lines 1004-1020: one turn of the first loop, or its end
select_scan ==
    /\ pc = "get_readable_server"
    /\ IF Top.x < Len(root.servers) /\ Top.host_index < MAX_SERVERS_TO_POLL
       THEN LET server == root.servers[Top.x + 1]
            IN IF server.read_buffer_length > 0
               THEN Return([NoRet EXCEPT !.n = Top.x + 1])
               ELSE /\ stack' = SetTop(
                          IF response_count(server) > 0
                          THEN [Top EXCEPT !.fds = Append(@, server.fd),
                                           !.host_index = @ + 1, !.x = @ + 1]
                          ELSE [Top EXCEPT !.x = @ + 1])
                    /\ UNCHANGED <<pc, ret>>
       ELSE /\ pc' = "select_decide"
            /\ UNCHANGED <<stack, ret>>
    /\ UNCHANGED <<instance, root, sock, call, calls>>

\* the first of the servers (given by their indexes) that a loop over the
\* list meets, 0 for NULL
FirstServer(hits) ==
    IF hits # {} THEN CHOOSE y \in hits : \A z \in hits : y <= z ELSE 0

\* the same test never taken
select_few_never(host_index) == FALSE

\* line 1022: if (host_index < 2)
select_few(host_index) == host_index < 2

\* lines 1022-1036: fewer than two servers to poll
select_decide ==
    /\ pc = "select_decide"
    /\ IF select_few(Top.host_index)
       THEN LET owes == {x \in 1..Len(root.servers) :
                            response_count(root.servers[x]) > 0}
            IN Return([NoRet EXCEPT !.n = FirstServer(owes)])
       ELSE /\ pc' = "select_poll"
            /\ UNCHANGED <<stack, ret>>
    /\ UNCHANGED <<instance, root, sock, call, calls>>

\* what poll(fds, host_index, timeout) can report: -1, 0, or the index of
\* the first descriptor with POLLIN
SelectPollOutcomes(host_index) == {-1, 0} \cup (1..host_index)

\* lines 1038-1065: the poll over the servers that owe responses
select_poll ==
    /\ pc = "select_poll"
    /\ call' = [call EXCEPT !.polled = TRUE]
    /\ \E o \in SelectPollOutcomes(Top.host_index) :
        IF o = -1
        THEN /\ root' = [root EXCEPT !.last_error = "ERRNO"]
             /\ Return([NoRet EXCEPT !.n = 0])
        ELSE IF o = 0
             THEN /\ Return([NoRet EXCEPT !.n = 0])
                  /\ UNCHANGED root
             ELSE LET polled == {y \in 1..Len(root.servers) :
                                    root.servers[y].fd = Top.fds[o]}
                  IN /\ Return([NoRet EXCEPT !.n = FirstServer(polled)])
                     /\ UNCHANGED root
    /\ UNCHANGED <<instance, sock, calls>>

(***************************************************************************)
(* The caller and the peer.                                                *)
(***************************************************************************)
\* the unread bytes the read buffer holds
Unread(inst) ==
    IF inst.read_ptr >= MEMCACHED_MAX_BUFFER THEN <<>>
    ELSE SubSeq(inst.read_buffer, inst.read_ptr + 1,
                Min(inst.read_ptr + inst.read_buffer_length,
                    MEMCACHED_MAX_BUFFER))

\* a new API call may start
Idle == pc = "idle" /\ calls < MaxCalls

Begin(c, frame) ==
    /\ calls' = calls + 1
    /\ call' = c
    /\ stack' = <<frame>>
    /\ pc' = frame.fn
    /\ ret' = NoRet

\* the caller invokes memcached_io_readline(instance, buffer, size, total_nr)
CallReadline ==
    /\ Idle
    /\ \E size \in 1..MaxSize :
        Begin([NoCall EXCEPT !.op = "readline", !.size = size,
                             !.avail = Unread(instance)],
              [fn |-> "readline", ret_pc |-> "idle", size |-> size,
               total_nr |-> 0, line_complete |-> FALSE, buffer |-> <<>>])
    /\ UNCHANGED <<instance, root, sock>>

\* the payload bytes of a write: each byte the callers hand over differs from
\* the ones before it
Payload(base, n) == [j \in 1..n |-> 97 + base + j - 1]

\* the caller may write: the asserts of _io_write, lines 776-777
MayWrite == Idle /\ instance.fd # INVALID_SOCKET /\ root.udp = FALSE

\* what a write call remembers of the state it began in
WriteCall(op, with_flush, parts) ==
    [NoCall EXCEPT !.op = op, !.with_flush = with_flush, !.parts = parts,
                   !.inst0 = instance, !.sent0 = Len(sock.sent)]

\* the caller invokes memcached_io_write(instance, buffer, length, with_flush)
CallWrite ==
    /\ MayWrite
    /\ \E n \in 1..MaxWrite, with_flush \in BOOLEAN :
        LET buffer == Payload(Len(sock.asked), n)
        IN /\ calls' = calls + 1
           /\ call' = WriteCall("write", with_flush, <<buffer>>)
           /\ stack' = <<[fn |-> "memcached_io_write", ret_pc |-> "idle"],
                         WriteFrame(buffer, with_flush, "memcached_io_write_ret")>>
           /\ pc' = "_io_write"
           /\ ret' = NoRet
    /\ UNCHANGED <<instance, root, sock>>

\* the caller invokes memcached_io_write(instance), lines 851-858: a flush
CallFlush ==
    /\ MayWrite
    /\ Begin(WriteCall("flush", TRUE, <<>>), WriteFrame(<<>>, TRUE, "idle"))
    /\ UNCHANGED <<instance, root, sock>>

\* the vectors of a writev, given the lengths of the parts
VectorLengths == UNION {[1..k -> 0..MaxPartLen] : k \in 1..MaxParts}

RECURSIVE SumTo(_, _)
SumTo(lens, k) == IF k = 0 THEN 0 ELSE lens[k] + SumTo(lens, k - 1)

Vector(lens, base) ==
    [x \in 1..Len(lens) |-> Payload(base + SumTo(lens, x - 1), lens[x])]

\* the caller invokes memcached_io_writev(instance, vector, number_of, with_flush)
CallWritev ==
    /\ MayWrite
    /\ \E lens \in VectorLengths, with_flush \in BOOLEAN :
        LET vector == Vector(lens, Len(sock.asked))
        IN Begin(WriteCall("writev", with_flush, vector),
                 [fn |-> "memcached_io_writev", ret_pc |-> "idle",
                  vector |-> vector, x |-> 1, with_flush |-> with_flush,
                  complete_total |-> 0, total |-> 0])
    /\ UNCHANGED <<instance, root, sock>>

\* the program looks at the socket only in recv and poll: a byte of the peer
\* arrives when the program is about to call one of them
AtSocket == pc \in {"_io_fill", "io_flush_repack", "io_wait_poll"}

\* the peer sends one more byte
PeerSend ==
    /\ instance.fd # INVALID_SOCKET
    /\ AtSocket
    /\ sock.peer_bytes < MaxPeerBytes
    /\ \E b \in Byte :
        sock' = [sock EXCEPT !.inq = Append(@, b), !.peer_bytes = @ + 1]
    /\ UNCHANGED <<instance, root, pc, stack, ret, call, calls>>

\* the peer sends one more byte of a response while the caller writes
PeerReply ==
    /\ instance.fd # INVALID_SOCKET
    /\ AtSocket
    /\ sock.peer_bytes < MaxReplies
    /\ sock' = [sock EXCEPT !.inq = Append(@, 97), !.peer_bytes = @ + 1]
    /\ UNCHANGED <<instance, root, pc, stack, ret, call, calls>>

\* the byte sequences a caller writes for the peer to echo
EchoPayloads == UNION {[1..n -> Byte] : n \in 1..MaxSize}

\* the caller writes S with memcached_io_write(instance, S, |S|, true)
CallEchoWrite ==
    /\ MayWrite
    /\ calls = 0
    /\ \E buffer \in EchoPayloads :
        /\ calls' = calls + 1
        /\ call' = WriteCall("write", TRUE, <<buffer>>)
        /\ stack' = <<[fn |-> "memcached_io_write", ret_pc |-> "idle"],
                      WriteFrame(buffer, TRUE, "memcached_io_write_ret")>>
        /\ pc' = "_io_write"
        /\ ret' = NoRet
    /\ UNCHANGED <<instance, root, sock>>

\* after a write that succeeded the caller reads the echo back with
\* memcached_safe_read(instance, dta, |S|)
CallEchoRead ==
    /\ Idle
    /\ calls = 1
    /\ call.op = "write"
    /\ ret.n = Len(sock.asked)
    /\ Begin([NoCall EXCEPT !.op = "safe_read", !.size = Len(sock.asked),
                            !.avail = Unread(instance)],
             [fn |-> "safe_read", ret_pc |-> "idle", size |-> Len(sock.asked),
              offset |-> 0, dta |-> <<>>])
    /\ UNCHANGED <<instance, root, sock>>

\* the peer echoes the next byte it was sent
PeerEcho ==
    /\ instance.fd # INVALID_SOCKET
    /\ AtSocket
    /\ sock.echoed < Len(sock.sent)
    /\ sock' = [sock EXCEPT !.inq = Append(@, sock.sent[sock.echoed + 1]),
                            !.echoed = @ + 1]
    /\ UNCHANGED <<instance, root, pc, stack, ret, call, calls>>

\* the caller invokes memcached_vdo on a UDP client (do.cc 104-107):
\* memcached_connect found the connection, and _vdo_udp sends the vector,
\* whose first part is the slot of the header
CallVdoUdp ==
    /\ pc = "idle"
    /\ root.udp
    /\ calls < MaxDatagrams
    /\ \E buffer \in {"NULL", "caller"}, length \in {0, 1} :
        Begin([NoCall EXCEPT !.op = "vdo_udp",
                             !.vector0 = [buffer |-> buffer, length |-> length]],
              [fn |-> "_vdo_udp", ret_pc |-> "idle",
               retry |-> 0, attempts |-> 0])
    /\ UNCHANGED <<instance, root, sock>>

\* the caller invokes memcached_io_get_readable_server(memc, rc)
CallSelect ==
    /\ pc = "idle"
    /\ calls = 0
    /\ Begin([NoCall EXCEPT !.op = "select"],
             [fn |-> "get_readable_server", ret_pc |-> "idle", x |-> 0,
              host_index |-> 0, fds |-> <<>>])
    /\ UNCHANGED <<instance, root, sock>>

\* the steps of io_wait
PollGate == io_wait_entry \/ io_wait_poll

\* the steps of the read path
ReadSteps ==
    \/ io_fill_recv \/ io_fill_wait_ret \/ io_fill_tail
    \/ memcached_io_read_entry \/ memcached_io_read_loop
    \/ memcached_io_read_fill_ret \/ memcached_io_read_copy

\* the steps of memcached_io_readline
ReadPath ==
    \/ ReadSteps
    \/ memcached_io_readline_loop \/ memcached_io_readline_ret
    \/ memcached_io_readline_copy

(***************************************************************************)
(* SpecRead: a connected TCP connection on which the caller reads lines    *)
(* while the peer sends bytes.                                             *)
(***************************************************************************)
InitConnected ==
    /\ instance = Connected(NewInstance)
    /\ root \in {[NewRoot EXCEPT !.poll_timeout = t] : t \in {0, 1}}
    /\ sock = NewSock
    /\ pc = "idle"
    /\ stack = <<>>
    /\ ret = NoRet
    /\ call = NoCall
    /\ calls = 0

NextRead == CallReadline \/ PeerSend \/ PollGate \/ ReadPath

SpecRead == InitConnected /\ [][NextRead]_vars

\* the steps of the write path
WritePath ==
    \/ io_flush_entry \/ io_flush_send \/ io_flush_repack \/ io_flush_process
    \/ io_flush_wait \/ io_flush_wait_ret
    \/ io_write_loop \/ io_write_flush_ret \/ memcached_io_write_ret

\* the steps of memcached_io_writev
WritevPath ==
    \/ io_flush_entry \/ io_flush_send \/ io_flush_repack \/ io_flush_process
    \/ io_flush_wait \/ io_flush_wait_ret
    \/ io_write_loop \/ io_write_flush_ret
    \/ memcached_io_writev_loop \/ memcached_io_writev_part_ret
    \/ memcached_io_writev_flush_ret

(***************************************************************************)
(* SpecWrite: a connected TCP connection on which the caller writes and    *)
(* flushes while the peer sends bytes of its own.                          *)
(***************************************************************************)
InitWrite ==
    /\ instance = Connected(NewInstance)
    /\ root \in {[NewRoot EXCEPT !.callbacks = c] : c \in BOOLEAN}
    /\ sock = NewSock
    /\ pc = "idle"
    /\ stack = <<>>
    /\ ret = NoRet
    /\ call = NoCall
    /\ calls = 0

NextWrite == CallWrite \/ CallFlush \/ PeerReply \/ PollGate \/ WritePath

SpecWrite == InitWrite /\ [][NextWrite]_vars

(***************************************************************************)
(* SpecBackPressure: the connection of SpecWrite on a socket whose kernel  *)
(* takes no bytes: every send reports ENOBUFS, every send reports EAGAIN,  *)
(* or every send returns 0, and poll never reports the socket writable.    *)
(* The calling thread keeps running: the steps of the write path and of    *)
(* the poll gate are weakly fair.                                          *)
(***************************************************************************)
InitBackPressure ==
    /\ instance = Connected(NewInstance)
    /\ root \in {[NewRoot EXCEPT !.callbacks = c, !.poll_timeout = t] :
                    c \in BOOLEAN, t \in {0, 1}}
    /\ sock \in {[NewSock EXCEPT !.pressure = k] : k \in PressureKinds}
    /\ pc = "idle"
    /\ stack = <<>>
    /\ ret = NoRet
    /\ call = NoCall
    /\ calls = 0

SpecBackPressure ==
    InitBackPressure /\ [][NextWrite]_vars /\ WF_vars(PollGate \/ WritePath)

(***************************************************************************)
(* SpecWritev: the same connection, written with memcached_io_writev.      *)
(***************************************************************************)
NextWritev == CallWritev \/ PeerReply \/ PollGate \/ WritevPath

SpecWritev == InitWrite /\ [][NextWritev]_vars

(***************************************************************************)
(* SpecEcho: the caller writes a byte sequence with a flush, the peer      *)
(* echoes what it is sent, and the caller reads as many bytes back.        *)
(***************************************************************************)
NextEcho ==
    \/ CallEchoWrite \/ CallEchoRead \/ PeerEcho \/ PollGate
    \/ WritePath \/ ReadSteps
    \/ memcached_safe_read_loop \/ memcached_safe_read_ret

SpecEcho == InitWrite /\ [][NextEcho]_vars

(***************************************************************************)
(* SpecUdp: a UDP connection on which the caller sends datagrams.  The     *)
(* model keeps the first UDP_DATAGRAM_HEADER_LENGTH bytes of the write     *)
(* buffer, which hold the header; the connection has sent datagrams        *)
(* before, and its request id is anywhere up to the end of its range.      *)
(***************************************************************************)
\* the request ids the connection starts from
UdpStartIds == {0, 1, UDP_ID_MODULUS - 2, UDP_ID_MODULUS - 1}

\* a connected UDP instance whose header holds the request id
UdpInstance(id) ==
    [Connected(NewInstance) EXCEPT
        !.write_buffer = StoreAt(Zeros(UDP_DATAGRAM_HEADER_LENGTH), 0, htons(id)),
        !.write_buffer_offset = UDP_DATAGRAM_HEADER_LENGTH]

InitUdp ==
    /\ instance \in {UdpInstance(id) : id \in UdpStartIds}
    /\ root = [NewRoot EXCEPT !.udp = TRUE]
    /\ sock = NewSock
    /\ pc = "idle"
    /\ stack = <<>>
    /\ ret = NoRet
    /\ call = NoCall
    /\ calls = 0

NextUdp == CallVdoUdp \/ vdo_udp_entry \/ vdo_udp_sendmsg

SpecUdp == InitUdp /\ [][NextUdp]_vars

(***************************************************************************)
(* SpecSelect: a client with a list of servers asks for a readable one.    *)
(* The lists are a run of servers that owe responses and hold no unread    *)
(* bytes, followed by up to MaxTail servers of any kind.                   *)
(***************************************************************************)
\* a server holds unread bytes, owes responses, both, or neither
ServerKinds == {"idle", "pending", "buffered", "both"}

Server(kind, i) ==
    [fd |-> SomeFd + i,
     read_buffer_length |-> IF kind \in {"buffered", "both"} THEN 1 ELSE 0,
     cursor_active_ |-> IF kind \in {"pending", "both"} THEN 1 ELSE 0]

\* the lengths of the leading run
PendingRuns == {0, 1, 2, MAX_SERVERS_TO_POLL - 1, MAX_SERVERS_TO_POLL}

Tails == UNION {[1..n -> ServerKinds] : n \in 0..MaxTail}

ServerLists ==
    {[i \in 1..(k + Len(t)) |->
         Server(IF i <= k THEN "pending" ELSE t[i - k], i)] :
       k \in PendingRuns, t \in Tails}

InitSelect ==
    /\ instance = NewInstance
    /\ root \in {[NewRoot EXCEPT !.servers = l] : l \in ServerLists}
    /\ sock = NewSock
    /\ pc = "idle"
    /\ stack = <<>>
    /\ ret = NoRet
    /\ call = NoCall
    /\ calls = 0

NextSelect == CallSelect \/ select_scan \/ select_decide \/ select_poll

SpecSelect == InitSelect /\ [][NextSelect]_vars

(***************************************************************************)
(* SpecClose: a connection, TCP or UDP, that the caller uses and then      *)
(* closes: start_close_socket (optionally), close_socket, reset_socket.    *)
(* The TCP connection may owe a response to an earlier request and may     *)
(* know the version of its server.                                         *)
(***************************************************************************)
\* the caller invokes start_close_socket before it closes (quit.cc)
CallStartCloseSocket ==
    /\ pc = "idle"
    /\ instance' = start_close_socket(instance)
    /\ sock' = start_close_shutdown(sock, instance)
    /\ pc' = "closing"
    /\ UNCHANGED <<root, stack, ret, call, calls>>

\* the caller invokes close_socket, once or again; a shutdown that fails
\* leaves the socket as it was (line 970), and the call goes on
CallCloseSocket ==
    /\ pc \in {"idle", "closing", "closed"}
    /\ instance' = close_socket(instance, root)
    /\ \E o \in IF instance.fd # INVALID_SOCKET
                 THEN ShutdownOutcomes ELSE {"none"} :
        /\ sock' = IF o = "ok" THEN close_socket_shutdown(sock, instance)
                   ELSE sock
        /\ call' = [NoCall EXCEPT
                       !.op = "close_socket", !.inst0 = instance,
                       !.how = IF instance.fd # INVALID_SOCKET
                               THEN shutdown_options(instance) ELSE "none",
                       !.shutdown_errno = o]
    /\ pc' = "closed"
    /\ UNCHANGED <<root, stack, ret, calls>>

\* the caller invokes reset_socket on the closed connection
CallResetSocket ==
    /\ pc = "closed"
    /\ instance' = reset_socket(instance)
    /\ pc' = "reset"
    /\ UNCHANGED <<root, sock, stack, ret, call, calls>>

InitClose ==
    /\ \/ /\ root = NewRoot
          /\ instance \in {[Connected(NewInstance) EXCEPT
                                 !.cursor_active_ = n, !.major_version = v] :
                              n \in {0, 1}, v \in {"UINT8_MAX", "1"}}
       \/ /\ root = [NewRoot EXCEPT !.udp = TRUE]
          /\ instance \in {UdpInstance(id) : id \in UdpStartIds}
    /\ sock = NewSock
    /\ pc = "idle"
    /\ stack = <<>>
    /\ ret = NoRet
    /\ call = NoCall
    /\ calls = 0

NextClose ==
    \/ NextEcho \/ NextUdp
    \/ CallStartCloseSocket \/ CallCloseSocket \/ CallResetSocket

SpecClose == InitClose /\ [][NextClose]_vars

(***************************************************************************)
(* SpecWait: a connected TCP connection on which the caller waits for      *)
(* readiness with memcached_io_wait_for_write and                          *)
(* memcached_io_wait_for_read while the peer sends bytes.                  *)
(***************************************************************************)
\* the frame of io_wait(instance, events)
WaitFrame(events, ret_pc) ==
    [fn |-> "io_wait", ret_pc |-> ret_pc, events |-> events,
     loop_max |-> 0, polls |-> 0]

\* the caller invokes memcached_io_wait_for_write(instance)
CallWaitForWrite ==
    /\ Idle
    /\ instance.fd # INVALID_SOCKET
    /\ Begin([NoCall EXCEPT !.op = "wait_for_write", !.inst0 = instance],
             WaitFrame("POLLOUT", "idle"))
    /\ UNCHANGED <<instance, root, sock>>

\* the caller invokes memcached_io_wait_for_read(instance)
CallWaitForRead ==
    /\ Idle
    /\ instance.fd # INVALID_SOCKET
    /\ Begin([NoCall EXCEPT !.op = "wait_for_read", !.inst0 = instance],
             WaitFrame("POLLIN", "idle"))
    /\ UNCHANGED <<instance, root, sock>>

NextWait == CallWaitForWrite \/ CallWaitForRead \/ PeerSend \/ PollGate

SpecWait == InitConnected /\ [][NextWait]_vars

(***************************************************************************)
(* SpecReadBytes and SpecSafeRead: a TCP connection on which the caller    *)
(* reads counted bytes, with memcached_io_read or with                     *)
(* memcached_safe_read, while the peer sends bytes; a call that fails may  *)
(* leave the connection closed, and the caller may read again.             *)
(***************************************************************************)
\* the caller invokes memcached_io_read(instance, buffer, length, nread)
CallRead ==
    /\ Idle
    /\ \E length \in 1..MaxSize :
        Begin([NoCall EXCEPT !.op = "read", !.size = length,
                             !.avail = Unread(instance)],
              [fn |-> "io_read", ret_pc |-> "idle", length |-> length,
               data |-> <<>>])
    /\ UNCHANGED <<instance, root, sock>>

\* the caller invokes memcached_safe_read(instance, dta, size)
CallSafeRead ==
    /\ Idle
    /\ \E size \in 1..MaxSize :
        Begin([NoCall EXCEPT !.op = "safe_read", !.size = size,
                             !.avail = Unread(instance)],
              [fn |-> "safe_read", ret_pc |-> "idle", size |-> size,
               offset |-> 0, dta |-> <<>>])
    /\ UNCHANGED <<instance, root, sock>>

NextReadBytes == CallRead \/ PeerSend \/ PollGate \/ ReadSteps

SpecReadBytes == InitConnected /\ [][NextReadBytes]_vars

NextSafeRead ==
    \/ CallSafeRead \/ PeerSend \/ PollGate \/ ReadSteps
    \/ memcached_safe_read_loop \/ memcached_safe_read_ret

SpecSafeRead == InitConnected /\ [][NextSafeRead]_vars

(***************************************************************************)
(* memcached_vdo on TCP, do.cc 67-136, and SpecVdo: a TCP connection that  *)
(* may owe a response, on a client that expects replies or not, on which   *)
(* the caller sends requests with memcached_vdo.                           *)
(***************************************************************************)
\* the caller invokes memcached_vdo(instance, vector, count, with_flush)
CallVdo ==
    /\ Idle
    /\ root.udp = FALSE
    /\ \E lens \in VectorLengths, with_flush \in BOOLEAN :
        LET vector == Vector(lens, Len(sock.asked))
        IN Begin(WriteCall("vdo", with_flush, vector),
                 [fn |-> "memcached_vdo", ret_pc |-> "idle",
                  vector |-> vector, with_flush |-> with_flush,
                  rc |-> "SUCCESS"])
    /\ UNCHANGED <<instance, root, sock>>

\* lines 88-111: memcached_connect, which does nothing on a connected
\* instance and otherwise connects a new socket or fails with an error
\* recorded, and then the call of memcached_io_writev
memcached_vdo_connect ==
    /\ pc = "memcached_vdo"
    /\ \E connected \in IF instance.fd # INVALID_SOCKET
                         THEN {TRUE} ELSE BOOLEAN :
        IF connected
        THEN /\ instance' = Connected(instance)
             /\ sock' = IF instance.fd # INVALID_SOCKET THEN sock ELSE NewSock
             /\ stack' = Append(stack,
                   [fn |-> "memcached_io_writev", ret_pc |-> "vdo_writev_ret",
                    vector |-> Top.vector, x |-> 1,
                    with_flush |-> Top.with_flush,
                    complete_total |-> 0, total |-> 0])
             /\ pc' = "memcached_io_writev"
             /\ UNCHANGED <<root, ret>>
        ELSE /\ instance' = memcached_set_error(instance, "CONNECTION_FAILURE")
             /\ root' = [root EXCEPT !.last_error = "CONNECTION_FAILURE"]
             /\ Return(Rc("CONNECTION_FAILURE"))
             /\ UNCHANGED sock
    /\ UNCHANGED <<call, calls>>

\* a client taken to expect replies whatever its setting
vdo_replying_always(r) == TRUE

\* line 126: memcached_is_replying(instance->root)
vdo_replying(r) == r.replying

\* lines 113-135: after memcached_io_writev.  The assert of line 115 fails
\* when an error was recorded and the assert of line 118 fails when none
\* was, so a build with assertions ends the program on every failed write
memcached_vdo_ret ==
    /\ pc = "vdo_writev_ret"
    /\ IF ret.ok = FALSE
       THEN \E assertions \in BOOLEAN :
              IF assertions
              THEN /\ pc' = "aborted"
                   /\ UNCHANGED <<instance, root, stack, ret>>
              ELSE IF root.last_error = "SUCCESS"
                   THEN /\ instance' = memcached_set_error(instance,
                                                          "WRITE_FAILURE")
                        /\ root' = [root EXCEPT !.last_error = "WRITE_FAILURE"]
                        /\ Return(Rc("WRITE_FAILURE"))
                   ELSE /\ Return(Rc(root.last_error))
                        /\ UNCHANGED <<instance, root>>
       ELSE /\ instance' = IF vdo_replying(root)
                           THEN [instance EXCEPT !.cursor_active_ = @ + 1]
                           ELSE instance
            /\ Return(Rc(Top.rc))
            /\ UNCHANGED root
    /\ UNCHANGED <<sock, call, calls>>

InitVdo ==
    /\ instance \in {[Connected(NewInstance) EXCEPT !.cursor_active_ = n] :
                        n \in {0, 1}}
    /\ root \in {[NewRoot EXCEPT !.replying = r] : r \in BOOLEAN}
    /\ sock = NewSock
    /\ pc = "idle"
    /\ stack = <<>>
    /\ ret = NoRet
    /\ call = NoCall
    /\ calls = 0

NextVdo ==
    \/ CallVdo \/ memcached_vdo_connect \/ memcached_vdo_ret
    \/ PeerReply \/ PollGate \/ WritevPath

SpecVdo == InitVdo /\ [][NextVdo]_vars

(***************************************************************************)
(* SpecReuse: a TCP connection that is new, or that was used, closed with  *)
(* close_socket and connected again; the caller writes and reads counted   *)
(* bytes while the peer sends a reply.                                     *)
(***************************************************************************)
\* a connection on which a refill received d bytes that the caller has read
Used(d) ==
    [Connected(NewInstance) EXCEPT
        !.read_buffer = StoreAt(@, 0, [i \in 1..d |-> NL]),
        !.read_data_length = d,
        !.read_ptr = d,
        !.io_wait_count._bytes_read = d]

\* the same connection after close_socket and memcached_connect
Reused(d) == Connected(close_socket(Used(d), NewRoot))

InitReuse ==
    /\ instance \in {Reused(d) : d \in 0..MEMCACHED_MAX_BUFFER}
    /\ root = NewRoot
    /\ sock = NewSock
    /\ pc = "idle"
    /\ stack = <<>>
    /\ ret = NoRet
    /\ call = NoCall
    /\ calls = 0

NextReuse ==
    \/ CallWrite \/ CallRead \/ PeerReply \/ PollGate \/ WritePath
    \/ ReadSteps

SpecReuse == InitReuse /\ [][NextReuse]_vars

(***************************************************************************)
(* SpecFlushWait: the connection of SpecWrite, on which the caller also    *)
(* waits for readability between its writes.                               *)
(***************************************************************************)
NextFlushWait == CallWaitForRead \/ NextWrite

SpecFlushWait == InitWrite /\ [][NextFlushWait]_vars

(***************************************************************************)
(* Claims about memcached_io_readline.                                     *)
(***************************************************************************)
\* the bytes the current call could consume, in order: the unread bytes the
\* read buffer held when it began, the bytes recv delivered during it, and
\* the bytes still queued in the socket
Stream == call.avail \o call.received \o sock.inq

\* memcached_io_readline has returned with a verdict on the line, that is
\* with no error of the transport
ReadlineDecided ==
    /\ pc = "idle"
    /\ call.op = "readline"
    /\ ret.rc \in {"SUCCESS", "PROTOCOL_ERROR"}

\* the stream begins with n - 1 bytes other than '\n' followed by '\n'
ExactFitLine(n) ==
    /\ Len(Stream) >= n
    /\ Stream[n] = NL
    /\ \A i \in 1..(n - 1) : Stream[i] # NL

\* the first n bytes of the stream hold no '\n'
NoLineIn(n) ==
    /\ Len(Stream) >= n
    /\ \A i \in 1..n : Stream[i] # NL

\* C1: when the stream is max_size - 1 bytes other than '\n' followed by
\* '\n', memcached_io_readline returns success with total_nr = max_size
C1_ExactFitLineSucceeds ==
    (ReadlineDecided /\ ExactFitLine(call.size))
        => (ret.rc = "SUCCESS" /\ ret.n = call.size)

\* C2: when the first max_size bytes available to memcached_io_readline
\* hold no '\n', the call returns PROTOCOL_ERROR and never success
C2_OverflowIsProtocolError ==
    (ReadlineDecided /\ NoLineIn(call.size)) => ret.rc = "PROTOCOL_ERROR"

(***************************************************************************)
(* Claims about memcached_io_writev.                                       *)
(***************************************************************************)
\* memcached_io_writev has returned to its caller
WritevReturned == pc = "idle" /\ call.op = "writev"

\* the parts of the vector, one after the other
RECURSIVE Concat(_)
Concat(parts) ==
    IF parts = <<>> THEN <<>>
    ELSE Concat(SubSeq(parts, 1, Len(parts) - 1)) \o parts[Len(parts)]

\* the bytes of the first k parts
RECURSIVE UpTo(_, _)
UpTo(parts, k) == IF k = 0 THEN 0 ELSE Len(parts[k]) + UpTo(parts, k - 1)

\* C3, as stated: memcached_io_writev returns true exactly when the bytes
\* written for the parts add up to the bytes requested (checked for vectors
\* with bytes to write, and calls in which no purge failed)
C3_TrueIffAllWritten ==
    (WritevReturned /\ Concat(call.parts) # <<>> /\ ~call.purge_failed)
        => (ret.ok <=> Len(call.copied) = Len(Concat(call.parts)))

\* C3, amended: memcached_io_writev returns true exactly when no io_flush of
\* the call failed; a true result means every byte of every part was copied
\* in order; when the buffered write of a part fails the result is false
\* and no byte of a later part is written
C3_AllOrNothing ==
    WritevReturned =>
        /\ ret.ok <=> ~call.flush_failed
        /\ ret.ok => call.copied = Concat(call.parts)
        /\ IsPrefix(call.copied, Concat(call.parts))
        /\ call.failed_part # 0 =>
              /\ ~ret.ok
              /\ Len(call.copied) <= UpTo(call.parts, call.failed_part)

\* a writev whose first part failed while a later part had bytes to write
C3_PartFailed ==
    /\ WritevReturned
    /\ call.failed_part = 1
    /\ Len(call.parts) = 2
    /\ call.parts[2] # <<>>

(***************************************************************************)
(* Claims about the flush.                                                 *)
(***************************************************************************)
\* memcached_io_write(instance) has returned, and the write buffer was empty
\* when it was called
FlushOfEmptyReturned ==
    /\ pc = "idle"
    /\ call.op = "flush"
    /\ call.inst0.write_buffer_offset = 0

DrainThenWait == <<"repack", "process", "wait">>

C10_SentIsPrefixOfAsked == IsPrefix(sock.sent, sock.asked)

(***************************************************************************)
(* Claims about the round trip.                                            *)
(***************************************************************************)
\* memcached_safe_read has returned after the peer echoed every byte of S,
\* and no error of the transport ended it
EchoReadReturned ==
    /\ pc = "idle"
    /\ call.op = "safe_read"
    /\ sock.sent = sock.asked
    /\ sock.echoed = Len(sock.asked)
    /\ ret.rc \in {"SUCCESS", "TIMEOUT"}

\* C5: a byte sequence S written with a flush and echoed by the peer is
\* what memcached_safe_read of length |S| returns, with success
C5_RoundTrip ==
    EchoReadReturned => (ret.rc = "SUCCESS" /\ ret.data = sock.asked)

(***************************************************************************)
(* Claims about UDP datagrams.                                             *)
(***************************************************************************)
\* C6: the request ids of the headers _vdo_udp prepares, one per call, are
\* consecutive modulo the width of the id and do not repeat; every datagram
\* sendmsg accepts carries the id prepared by its call, whatever the number
\* of attempts
C6_IdsConsecutive ==
    /\ \A i \in 1..(Len(sock.stamped) - 1) :
          sock.stamped[i + 1] = (sock.stamped[i] + 1) % UDP_ID_MODULUS
    /\ \A i, j \in 1..Len(sock.stamped) :
          i # j => sock.stamped[i] # sock.stamped[j]
    /\ sock.stamped # <<>> =>
          get_udp_datagram_request_id(instance) = sock.stamped[Len(sock.stamped)]
    /\ \A i \in 1..Len(sock.datagrams) :
          \E j \in 1..Len(sock.stamped) : sock.datagrams[i] = sock.stamped[j]
    /\ \A i \in 1..(Len(sock.datagrams) - 1) :
          sock.datagrams[i] # sock.datagrams[i + 1]

\* three datagrams were accepted and their ids passed the end of the range
C6_ThreeDatagramsAcrossWrap ==
    /\ Len(sock.datagrams) = 3
    /\ sock.datagrams[1] = UDP_ID_MODULUS - 1
    /\ sock.datagrams[2] = 0
    /\ sock.datagrams[3] = 1

(***************************************************************************)
(* Claims about the selector.                                              *)
(***************************************************************************)
\* C8: when a server of the list holds unread bytes,
\* memcached_io_get_readable_server returns a server that holds unread
\* bytes and calls no poll
C8_BufferedServerPreferred ==
    (/\ pc = "idle"
     /\ call.op = "select"
     /\ \E y \in 1..Len(root.servers) : root.servers[y].read_buffer_length > 0)
        => /\ ret.n # 0
           /\ root.servers[ret.n].read_buffer_length > 0
           /\ ~call.polled

(***************************************************************************)
(* Claims about the connection lifecycle.                                  *)
(***************************************************************************)
\* C9: after close_socket followed by reset_socket the connection holds no
\* unread bytes and its read cursor is at the start of the buffer, its write
\* offset is 0 (the size of the datagram header on UDP), its counters (bytes
\* sent, read waits, write waits, bytes read, responses owed) are zero, it
\* is not shutting down, its descriptor is invalid and its state is NEW
C9_ResetRestoresInvariants ==
    pc = "reset" =>
        /\ instance.read_buffer_length = 0
        /\ instance.read_ptr = 0
        /\ instance.write_buffer_offset =
               (IF root.udp THEN UDP_DATAGRAM_HEADER_LENGTH ELSE 0)
        /\ instance.io_bytes_sent = 0
        /\ instance.io_wait_count.read = 0
        /\ instance.io_wait_count.write = 0
        /\ instance.io_wait_count._bytes_read = 0
        /\ instance.cursor_active_ = 0
        /\ instance.is_shutting_down = FALSE
        /\ instance.fd = INVALID_SOCKET
        /\ instance.state = "NEW"

(***************************************************************************)
(* Claims about the poll gate.                                             *)
(***************************************************************************)
\* the caller's memcached_io_wait_for_write or _read has returned
WaitReturned == pc = "idle" /\ call.op \in {"wait_for_write", "wait_for_read"}

\* C11: an io_wait that gives up because every poll was one to retry
\* (EINTR, or POLLERR with a socket error of zero) has polled exactly 5
\* times, and no io_wait polls more than 5 times
C11_FivePollsBeforeGivingUp ==
    /\ call.gate = "exhausted" => call.exhausted_after = 5
    /\ pc = "io_wait_poll" => Top.polls < 5

\* C12: a wait for writability adds exactly one to the write-wait counter
\* and leaves the read-wait counter alone, and a wait for readability does
\* the converse, however the call ends
C12_OneWaitCounted ==
    WaitReturned =>
        LET before == call.inst0.io_wait_count
            after == instance.io_wait_count
        IN IF call.op = "wait_for_write"
           THEN after.write = before.write + 1 /\ after.read = before.read
           ELSE after.read = before.read + 1 /\ after.write = before.write

\* the connection is closed: no descriptor, state NEW, buffers reset
Closed(inst) ==
    /\ inst.fd = INVALID_SOCKET
    /\ inst.state = "NEW"
    /\ inst.read_buffer_length = 0
    /\ inst.read_ptr = 0
    /\ inst.write_buffer_offset = 0

\* the error the connection held when the call began, CONNECTION_FAILURE if
\* it held none
LastErrorOr(inst) ==
    IF inst.error_messages = "NONE" THEN "CONNECTION_FAILURE"
    ELSE inst.error_messages

\* C18 as stated: an io_wait that runs out of retries closes the connection
\* and returns the connection's last recorded error, or CONNECTION_FAILURE
\* when none was recorded, and never SUCCESS or TIMEOUT
C18_ExhaustionNeverTimeout ==
    (WaitReturned /\ call.gate = "exhausted") =>
        /\ Closed(instance)
        /\ ret.rc = LastErrorOr(call.inst0)
        /\ ret.rc \notin {"SUCCESS", "TIMEOUT"}

\* C18 as amended: an io_wait that runs out of retries closes the
\* connection and returns the connection's last recorded error, or
\* CONNECTION_FAILURE when none was recorded, and never SUCCESS
C18_ExhaustionClosesAndFails ==
    (WaitReturned /\ call.gate = "exhausted") =>
        /\ Closed(instance)
        /\ ret.rc = LastErrorOr(call.inst0)
        /\ ret.rc # "SUCCESS"

\* an io_wait ran out of retries on a connection that had recorded the
\* timeout of an earlier wait
C18_ExhaustedAfterTimeout ==
    /\ WaitReturned
    /\ call.gate = "exhausted"
    /\ call.inst0.error_messages = "TIMEOUT"
    /\ call.inst0.fd # INVALID_SOCKET

\* C19: when poll reports a hang-up, io_wait returns CONNECTION_FAILURE and
\* leaves the connection closed (no descriptor, state NEW)
C19_HangUpClosesConnection ==
    (WaitReturned /\ call.gate = "hup") =>
        /\ ret.rc = "CONNECTION_FAILURE"
        /\ instance.fd = INVALID_SOCKET
        /\ instance.state = "NEW"

(***************************************************************************)
(* Claims about the retries of _vdo_udp.                                   *)
(***************************************************************************)
\* C13: when sendmsg returns 0 on every attempt, _vdo_udp gives up after
\* exactly 5 calls of sendmsg, and no execution calls it more than 5 times
C13_FiveSendmsgAttempts ==
    /\ (pc = "idle" /\ call.op = "vdo_udp" /\ call.exhausted_after # 0)
          => call.exhausted_after = 5
    /\ pc = "_vdo_udp_loop" => Top.attempts < 5

(***************************************************************************)
(* Claims about counted reads and the refill.                              *)
(***************************************************************************)
\* the caller's memcached_safe_read has returned
SafeReadReturned == pc = "idle" /\ call.op = "safe_read"

\* the bytes the connection held unread when the call began, followed by
\* the bytes recv delivered during the call
Delivered == call.avail \o call.received

\* C14: memcached_safe_read(instance, dta, size) returns SUCCESS only when
\* dta holds exactly the next size bytes of the connection, in order, and
\* the bytes after them are still unread
C14_SafeReadExact ==
    (SafeReadReturned /\ ret.rc = "SUCCESS") =>
        /\ Len(ret.data) = call.size
        /\ Len(Delivered) >= call.size
        /\ ret.data = Take(Delivered, call.size)
        /\ Unread(instance) = Drop(Delivered, call.size)

C20_RefillCountsReceived ==
    [][/\ (pc = "_io_fill" /\ pc' = "_io_fill_tail") =>
            /\ Top'.data_read > 0
            /\ instance'.io_wait_count._bytes_read =
                   instance.io_wait_count._bytes_read + Top'.data_read
       /\ pc = "_io_fill_tail" =>
            /\ instance'.read_ptr = 0
            /\ instance'.read_buffer_length = Top.data_read
            /\ instance'.read_data_length = Top.data_read]_vars

(***************************************************************************)
(* Claims about the failures of io_flush.                                  *)
(***************************************************************************)
\* io_flush is back from a writable wait that did not succeed: send had
\* reported EAGAIN and neither repack_input_buffer nor process_input_buffer
\* had made progress
FlushWaitFailed == pc = "io_flush_wait_ret" /\ ~memcached_success(ret.rc)

\* io_flush closes the connection and reports the errno
FlushCloses ==
    /\ ret'.ok = FALSE
    /\ ret'.rc = "ERRNO"
    /\ instance'.fd = INVALID_SOCKET
    /\ instance'.state = "NEW"
    /\ instance'.error_messages = "ERRNO"

\* C16 as stated: when the wait returns TIMEOUT, io_flush fails, the
\* connection is open afterwards (a descriptor, the state it had) and
\* io_flush records no error; when the wait fails otherwise, io_flush closes
\* the connection and reports a fatal error
C16_TimeoutLeavesOpen ==
    [][FlushWaitFailed =>
          IF ret.rc = "TIMEOUT"
          THEN /\ ret'.ok = FALSE
               /\ ret'.rc = "SUCCESS"
               /\ instance'.fd # INVALID_SOCKET
               /\ instance'.state = call.inst0.state
               /\ instance'.error_messages = instance.error_messages
          ELSE FlushCloses]_vars

\* C16 as amended: when the wait returns TIMEOUT, io_flush fails and leaves
\* the connection as the wait left it, recording no error: open when the
\* poll timed out or the timeout is zero; when the wait fails otherwise,
\* io_flush closes the connection and reports a fatal error
C16_TimeoutLeavesAsWaitLeft ==
    [][FlushWaitFailed =>
          IF ret.rc = "TIMEOUT"
          THEN /\ ret'.ok = FALSE
               /\ ret'.rc = "SUCCESS"
               /\ instance' = instance
               /\ root' = root
               /\ sock' = sock
               /\ call.gate \in {"timeout", "zero"} =>
                     /\ instance'.fd # INVALID_SOCKET
                     /\ instance'.state = call.inst0.state
          ELSE FlushCloses]_vars

\* a write whose flush failed on a wait that timed out has returned, and
\* the connection is open
C16_FlushTimedOut ==
    /\ pc = "idle"
    /\ call.op = "write"
    /\ call.flush_failed
    /\ call.gate = "timeout"
    /\ ret.rc = "SUCCESS"
    /\ instance.fd # INVALID_SOCKET
    /\ instance.state = call.inst0.state

\* C17: a send that fails with EINTR is retried by io_flush: the connection
\* stays open and the flush does not fail on it
C17_InterruptedSendRetried ==
    call.send_errno = "EINTR" =>
        /\ instance.fd # INVALID_SOCKET
        /\ ~call.flush_failed

(***************************************************************************)
(* Claims about the end of the stream.                                     *)
(***************************************************************************)
\* C21: when the recv of a refill returns 0 the connection is closed (no
\* descriptor, state NEW, read buffer empty) and the refill returns
\* CONNECTION_FAILURE; memcached_io_read passes the failure on with nread
\* -1; every later read on the connection returns CONNECTION_FAILURE
C21_RefillOnOrderlyClose ==
    [][/\ (pc = "_io_fill" /\ sock'.eof) =>
            /\ Closed(instance')
            /\ instance'.error_messages = "CONNECTION_FAILURE"
            /\ pc' = Top.ret_pc
            /\ ret'.rc = "CONNECTION_FAILURE"
       /\ (pc = "io_read_fill_ret" /\ sock.eof) =>
            /\ pc' = Top.ret_pc
            /\ ret'.rc = "CONNECTION_FAILURE"
            /\ ret'.n = -1
       /\ (pc = "io_read" /\ sock.eof) =>
            /\ pc' = Top.ret_pc
            /\ ret'.rc = "CONNECTION_FAILURE"
            /\ sock' = sock]_vars

\* a read was refused on a connection whose earlier read had met the end of
\* the stream and had returned -1
C21_ReadAfterEndOfStream ==
    /\ pc = "idle"
    /\ call.op = "read"
    /\ call.refused
    /\ sock.eof
    /\ Closed(instance)
    /\ instance.error_messages = "CONNECTION_FAILURE"
    /\ ret.rc = "CONNECTION_FAILURE"

(***************************************************************************)
(* Claims about the results of _vdo_udp.                                   *)
(***************************************************************************)
\* C22: when every sendmsg of _vdo_udp returns 0 the call returns SUCCESS
\* after the last attempt, records no error and leaves the connection open;
\* a sendmsg that returns a negative value is not retried and the call
\* returns WRITE_FAILURE for EMSGSIZE and ERRNO otherwise, never SUCCESS
C22_UdpBestEffort ==
    [][/\ (pc = "_vdo_udp_loop" /\ call'.exhausted_after # 0) =>
            /\ pc' = Top.ret_pc
            /\ ret'.rc = "SUCCESS"
            /\ instance' = instance
            /\ root' = root
            /\ sock' = sock
       /\ (pc = "_vdo_udp_loop" /\ call'.send_errno # "none") =>
            /\ pc' = Top.ret_pc
            /\ ~memcached_success(ret'.rc)
            /\ ret'.rc = IF call'.send_errno = "EMSGSIZE"
                         THEN "WRITE_FAILURE" ELSE "ERRNO"
            /\ instance'.error_messages = ret'.rc
            /\ sock' = sock]_vars

\* a datagram was given up after every sendmsg returned 0: the call returned
\* SUCCESS, no datagram left, and the connection holds no error and is open
C22_SilentSuccess ==
    /\ pc = "idle"
    /\ call.op = "vdo_udp"
    /\ call.exhausted_after # 0
    /\ ret.rc = "SUCCESS"
    /\ instance.fd # INVALID_SOCKET
    /\ instance.error_messages = "NONE"
    /\ sock.datagrams = <<>>

\* C23: when the first part passed to _vdo_udp holds a buffer or a length,
\* the call returns NOT_SUPPORTED, recorded on the client, and does nothing
\* else: the message id stays, the part vector stays and no sendmsg is made
C23_HeaderSlotRejected ==
    [][(/\ pc = "_vdo_udp"
        /\ (call.vector0.buffer # "NULL" \/ call.vector0.length # 0)) =>
          /\ pc' = Top.ret_pc
          /\ ret'.rc = "NOT_SUPPORTED"
          /\ instance' = instance
          /\ call'.vector0 = call.vector0
          /\ sock' = sock
          /\ root' = [root EXCEPT !.last_error = "NOT_SUPPORTED"]]_vars

\* a call whose first part held a length and no buffer was rejected after an
\* earlier datagram had been sent
C23_LengthOnlySlotRejected ==
    /\ pc = "idle"
    /\ call.op = "vdo_udp"
    /\ call.vector0 = [buffer |-> "NULL", length |-> 1]
    /\ ret.rc = "NOT_SUPPORTED"
    /\ Len(sock.datagrams) = 1
    /\ Len(sock.stamped) = 1

(***************************************************************************)
(* Claims about close_socket.                                              *)
(***************************************************************************)
\* C24: close_socket shuts down the read side only when start_close_socket
\* was called before it on the descriptor, and both directions otherwise;
\* whether the descriptor was valid or not, whether shutdown succeeded or
\* failed, and however often it is called, it leaves the descriptor
\* invalid, the state NEW, the shutdown flag clear and the buffer offsets
\* and the version reset; start_close_socket keeps the descriptor
C24_CloseSocketAlwaysResets ==
    [][/\ pc' = "closed" =>
            /\ call'.how = IF instance.fd = INVALID_SOCKET THEN "none"
                           ELSE IF pc = "closing" THEN "RD" ELSE "RDWR"
            /\ instance'.fd = INVALID_SOCKET
            /\ instance'.state = "NEW"
            /\ instance'.is_shutting_down = FALSE
            /\ instance'.read_buffer_length = 0
            /\ instance'.read_ptr = 0
            /\ instance'.write_buffer_offset =
                   (IF root.udp THEN UDP_DATAGRAM_HEADER_LENGTH ELSE 0)
            /\ instance'.major_version = "UINT8_MAX"
       /\ pc' = "closing" =>
            /\ instance'.fd = instance.fd
            /\ instance'.state = instance.state]_vars

\* close_socket came after start_close_socket on a connection that held
\* unread bytes and knew its server's version; its shutdown of the read
\* side failed, and the connection is closed and reset all the same
C24_ReadSideShutdownFailed ==
    /\ pc = "closed"
    /\ call.how = "RD"
    /\ call.shutdown_errno = "EIO"
    /\ call.inst0.is_shutting_down
    /\ call.inst0.read_buffer_length > 0
    /\ call.inst0.major_version = "1"
    /\ sock.shutdown = "WR"
    /\ Closed(instance)

\* C25: when no server holds unread bytes and fewer than 2 servers owe
\* responses, memcached_io_get_readable_server calls no poll and returns
\* the first server of the list that owes a response, or NULL when none
\* does; and whatever the list, a server it returns is in the list and
\* holds unread bytes or owes a response
C25_FewCandidatesNoPoll ==
    (pc = "idle" /\ call.op = "select") =>
        LET buffered == {y \in 1..Len(root.servers) :
                            root.servers[y].read_buffer_length > 0}
            owes == {y \in 1..Len(root.servers) :
                        root.servers[y].cursor_active_ > 0}
        IN /\ (buffered = {} /\ Cardinality(owes) < 2) =>
                /\ ~call.polled
                /\ IF owes = {} THEN ret.n = 0 ELSE ret.n \in owes
           /\ ret.n # 0 => ret.n \in buffered \cup owes

\* of two servers without unread bytes only the second owed a response, and
\* it was returned without a poll
C25_OnlyPendingServerReturned ==
    /\ pc = "idle"
    /\ call.op = "select"
    /\ Len(root.servers) = 2
    /\ \A y \in 1..2 : root.servers[y].read_buffer_length = 0
    /\ \A y \in 1..2 : root.servers[y].cursor_active_ > 0 <=> y = 2
    /\ ret.n = 2
    /\ ~call.polled

(***************************************************************************)
(* Claims about a flush under back-pressure.                               *)
(***************************************************************************)
\* the calling thread is inside io_flush
InFlush ==
    \E k \in 1..Len(stack) : stack[k].fn = "io_flush"

\* C26: when every send reports back-pressure (ENOBUFS, EAGAIN) or returns
\* 0, a flush that has bytes to send returns to its caller in the end, with
\* or without response callbacks on the client
C26_FlushReturnsUnderBackPressure == InFlush ~> ~InFlush

(***************************************************************************)
(* Claims about the buffers.                                               *)
(***************************************************************************)
\* C27: in every state of a TCP connection that the caller writes, flushes,
\* reads, closes and resets, the write offset is at most
\* MEMCACHED_MAX_BUFFER, the unread count is at most the occupied length,
\* the occupied length is at most MEMCACHED_MAX_BUFFER, and the unread
\* bytes lie inside the read buffer
C27_BufferBounds ==
    root.udp = FALSE =>
        /\ instance.write_buffer_offset <= MEMCACHED_MAX_BUFFER
        /\ instance.read_buffer_length <= instance.read_data_length
        /\ instance.read_data_length <= MEMCACHED_MAX_BUFFER
        /\ instance.read_ptr + instance.read_buffer_length
               <= MEMCACHED_MAX_BUFFER

\* C28, in the case the claim names: a read that follows a write whose
\* flush met back-pressure, and that is served from the read buffer alone,
\* delivers the bytes the peer sent on this connection, in the order they
\* were received, and no others, also on a connection that was closed with
\* close_socket and connected again
C28_ReadsAreFifo ==
    (/\ pc = "idle"
     /\ call.op = "read"
     /\ ret.rc = "SUCCESS"
     /\ call.received = <<>>
     /\ sock.asked # <<>>)
        => /\ Len(ret.data) <= sock.peer_bytes
           /\ \A i \in 1..Len(ret.data) : ret.data[i] = 97

=============================================================================
